---- MODULE Spec2Model ----
(***************************************************************************)
(* State-machine model of the WGU ("Won't Give Up") fighter of             *)
(* src/wgu-fighter.py: main(), WGUFighter.fight_until_victory and the      *)
(* methods it calls.  The platform CLI (gh run list) is the environment:   *)
(* every call answers with one element of Responses, or raises.            *)
(*                                                                         *)
(* Success rates are Python floats in the source; here they are exact      *)
(* integers in basis points (100.0% = 10000), floor((total-failed) *       *)
(* 10000 / total), which orders and compares with 100.0 as the float does. *)
(* Character strings that the code searches with `in` are tuples of        *)
(* one-character strings; strings that are only copied are TLA+ strings.   *)
(***************************************************************************)
EXTENDS Integers, Sequences, FiniteSets, TLC

VARIABLES
    max_rounds,           \* WGUFighter.max_rounds
    aggressive,           \* WGUFighter.aggressive
    fs,                   \* working directory, as seen by the Path(...) tests
    battle_history,       \* WGUFighter.battle_history
    total_fixes_applied,  \* WGUFighter.total_fixes_applied
    pc,                   \* position of the process in main / fight_until_victory
    round_num,            \* loop variable of the fighting loop
    round_fixes,          \* execute_battle_round: local fixes_applied
    polls,                \* wait_for_battle_results: sleeps done in the running wait
    gave_up,              \* the running round's wait was left at the ceiling
    wait_workflows,       \* wait_for_battle_results: workflows of the latest poll
    assessment,           \* the dict last returned by assess_battlefield
    loop_log,             \* calls of detect_battle_loops: <<round, result>>
    result,               \* value returned by fight_until_victory
    raised,               \* exception that left fight_until_victory
    raised_at,            \* position at which it was raised
    report,               \* WGU-BATTLE-REPORT.md: <<>> or <<content>>
    exit_code,            \* sys.exit status of main, -1 while running
    log_content,          \* gha_jobs_commands: the log of the run under investigation
    run_patterns,         \* _investigate_run: patterns of the latest analysis
    investigations,       \* _investigate_run results, by confidence threshold
    conf_patterns,        \* argument of _calculate_overall_confidence
    overall_confidence,   \* its result, <<>> before the call
    queries,              \* platform queries made: method, outcome, result
    workflow_content,     \* content of the workflow file under .github/workflows
    fix_log,              \* fix / improve routines run on it, with their reports
    fixer,                \* the concurrent fixer class whose method runs
    jobs,                 \* process_jobs_*: the job list handed in
    max_workers,          \* max_workers of both ThreadPoolExecutors
    phase,                \* position of the calling thread in process_jobs_*
    futures,              \* futures of the running phase, in submission order
    analyzed_jobs,        \* process_jobs_*: local analyzed_jobs
    results,              \* process_jobs_*: local results / fixed_jobs
    progress_queue,       \* ConcurrentJobFixer.progress_queue, oldest first
    completed,            \* print_progress_thread: local completed
    analyzer_logs,        \* failure-analyzer.py: the logs under analysis
    failure_analysis      \* analyze_failure_patterns' result, <<>> before

fighter_vars ==
    <<max_rounds, aggressive, fs, battle_history, total_fixes_applied, pc,
      round_num, round_fixes, polls, gave_up, wait_workflows, assessment,
      loop_log, result, raised, raised_at, report, exit_code>>

investigate_vars == <<log_content, run_patterns, investigations>>

confidence_vars == <<conf_patterns, overall_confidence>>

query_vars == <<queries>>

fix_vars == <<workflow_content, fix_log>>

pool_vars ==
    <<fixer, jobs, max_workers, phase, futures, analyzed_jobs, results,
      progress_queue, completed>>

analyzer_vars == <<analyzer_logs, failure_analysis>>

tools_vars == <<pool_vars, analyzer_vars>>

jobs_vars ==
    <<investigate_vars, confidence_vars, query_vars, fix_vars, tools_vars>>

vars == <<max_rounds, aggressive, fs, battle_history, total_fixes_applied, pc,
          round_num, round_fixes, polls, gave_up, wait_workflows, assessment,
          loop_log, result, raised, raised_at, report, exit_code,
          log_content, run_patterns, investigations, conf_patterns,
          overall_confidence, queries, workflow_content, fix_log,
          fixer, jobs, max_workers, phase, futures, analyzed_jobs, results,
          progress_queue, completed, analyzer_logs, failure_analysis>>

\* the variables of gha_jobs_commands while no command of it runs
InvestigateIdle ==
    log_content = <<>> /\ run_patterns = <<>> /\ investigations = <<>>

ConfidenceIdle == conf_patterns = <<>> /\ overall_confidence = <<>>

QueryIdle == queries = <<>>

FixIdle == workflow_content = <<>> /\ fix_log = <<>>

\* the variables of the concurrent fixers while neither of them runs
PoolIdle ==
    /\ fixer = "none" /\ jobs = <<>> /\ max_workers = 0 /\ phase = "idle"
    /\ futures = <<>> /\ analyzed_jobs = <<>> /\ results = <<>>
    /\ progress_queue = <<>> /\ completed = 0

AnalyzerIdle == analyzer_logs = <<>> /\ failure_analysis = <<>>

ToolsIdle == PoolIdle /\ AnalyzerIdle

JobsIdle ==
    InvestigateIdle /\ ConfidenceIdle /\ QueryIdle /\ FixIdle /\ ToolsIdle

(***************************************************************************)
(* Bounds of the model.                                                    *)
(***************************************************************************)
MaxRounds == 4        \* max_rounds ranges over 0..MaxRounds
MaxWaitPolls == 1     \* sleeps after which the elapsed wait exceeds the ceiling

(***************************************************************************)
(* BattleStatus                                                            *)
(***************************************************************************)
FIGHTING == "fighting"
VICTORY == "victory"
STRATEGIC_RETREAT == "strategic_retreat"
BattleStatus == {FIGHTING, VICTORY, STRATEGIC_RETREAT}

(***************************************************************************)
(* Sequence helpers.                                                       *)
(***************************************************************************)
ToSet(s) == {s[i] : i \in DOMAIN s}

RECURSIVE Concat(_)
Concat(ss) == IF ss = <<>> THEN <<>> ELSE Head(ss) \o Concat(Tail(ss))

Contains(hay, needle) ==
    \E i \in 1..(Len(hay) - Len(needle) + 1) :
        SubSeq(hay, i, i + Len(needle) - 1) = needle

UpperChars == <<"A","B","C","D","E","F","G","H","I","J","K","L","M",
                "N","O","P","Q","R","S","T","U","V","W","X","Y","Z">>
LowerChars == <<"a","b","c","d","e","f","g","h","i","j","k","l","m",
                "n","o","p","q","r","s","t","u","v","w","x","y","z">>

LowerOf ==
    [c \in ToSet(UpperChars) |->
        LowerChars[CHOOSE k \in DOMAIN UpperChars : UpperChars[k] = c]]

Lower(s) ==
    [i \in DOMAIN s |-> IF s[i] \in DOMAIN LowerOf THEN LowerOf[s[i]] ELSE s[i]]

(***************************************************************************)
(* The platform: answers of `gh run list --json ...`.                      *)
(***************************************************************************)
Run(n, s, c) == [name |-> n, status |-> s, conclusion |-> c]

RunLists ==
    { <<>>,
      <<Run("ci", "completed", "success"), Run("tests", "completed", "success")>>,
      <<Run("ci", "completed", "failure"), Run("tests", "completed", "success")>>,
      <<Run("ci", "completed", "failure"), Run("tests", "completed", "failure")>>,
      <<Run("ci", "completed", "success"), Run("tests", "queued", "")>>,
      <<Run("ci", "completed", "cancelled"), Run("tests", "in_progress", "")>>,
      <<Run("ci", "completed", "success"), Run("ci", "completed", "failure")>> }

Responses ==
    { [kind |-> "ok", runs |-> r] : r \in RunLists }
    \cup { [kind |-> "CalledProcessError", runs |-> <<>>],
           [kind |-> "JSONDecodeError", runs |-> <<>>] }

(***************************************************************************)
(* WGUFighter.get_recent_workflow_status                                   *)
(***************************************************************************)
WorkflowStatus(run) ==
    [name |-> run.name,
     status |-> IF run.status = "completed" THEN run.conclusion ELSE run.status]

RECURSIVE LatestPerName(_, _)
LatestPerName(runs, seen) ==
    IF runs = <<>> THEN <<>>
    ELSE IF Head(runs).name \in seen
         THEN LatestPerName(Tail(runs), seen)
         ELSE <<WorkflowStatus(Head(runs))>>
              \o LatestPerName(Tail(runs), seen \cup {Head(runs).name})

get_recent_workflow_status(resp) ==
    IF resp.kind = "ok" THEN LatestPerName(resp.runs, {}) ELSE <<>>

(***************************************************************************)
(* WGUFighter.assess_battlefield                                           *)
(***************************************************************************)
IsFailure(w) == w.status = "failure"

assess_battlefield_nothing_passed(resp) ==
    LET workflows == get_recent_workflow_status(resp)
        failures == SelectSeq(workflows, IsFailure)
        total == IF Len(workflows) > 0 THEN Len(workflows) ELSE 1
    IN [workflows |-> workflows,
        failures |-> failures,
        success_rate |-> ((Len(workflows) - Len(failures)) * 10000) \div total,
        total |-> total]

assess_battlefield_allgreen(resp) ==
    LET workflows == get_recent_workflow_status(resp)
        failures == SelectSeq(workflows, IsFailure)
        total == IF Len(workflows) > 0 THEN Len(workflows) ELSE 1
    IN [workflows |-> workflows,
        failures |-> failures,
        success_rate |-> 10000,
        total |-> total]

assess_battlefield(resp) ==
    LET workflows == get_recent_workflow_status(resp)
        failures == SelectSeq(workflows, IsFailure)
        total == IF Len(workflows) > 0 THEN Len(workflows) ELSE 1
    IN [workflows |-> workflows,
        failures |-> failures,
        success_rate |-> ((total - Len(failures)) * 10000) \div total,
        total |-> total]

NamesOf(ws) == [i \in DOMAIN ws |-> ws[i].name]

(***************************************************************************)
(* WGUFighter.analyze_failure_patterns: the fixed list of pattern texts,   *)
(* whatever the failing workflows are.                                     *)
(***************************************************************************)
PatPythonImport == \* "python import errors"
    <<"p","y","t","h","o","n"," ","i","m","p","o","r","t"," ","e","r","r","o","r","s">>
PatMissingDeps == \* "missing dependencies"
    <<"m","i","s","s","i","n","g"," ","d","e","p","e","n","d","e","n","c","i","e","s">>
PatTestConfig == \* "test configuration issues"
    <<"t","e","s","t"," ","c","o","n","f","i","g","u","r","a","t","i","o","n"," ","i","s","s","u","e","s">>
PatWorkflowAction == \* "workflow action version problems"
    <<"w","o","r","k","f","l","o","w"," ","a","c","t","i","o","n"," ","v","e","r","s","i","o","n"," ","p","r","o","b","l","e","m","s">>

analyze_failure_patterns(failing_workflows) ==
    <<PatPythonImport, PatMissingDeps, PatTestConfig, PatWorkflowAction>>

(***************************************************************************)
(* Keywords of the dispatch in apply_fighter_fixes.                        *)
(***************************************************************************)
Kw_python == <<"p","y","t","h","o","n">>
Kw_node == <<"n","o","d","e">>
Kw_npm == <<"n","p","m">>
Kw_test == <<"t","e","s","t">>
Kw_dependency == <<"d","e","p","e","n","d","e","n","c","y">>
Kw_import == <<"i","m","p","o","r","t">>
Kw_action == <<"a","c","t","i","o","n">>
Kw_workflow == <<"w","o","r","k","f","l","o","w">>

(***************************************************************************)
(* The working directory: what the Path(...).exists() / glob tests see.    *)
(***************************************************************************)
Dir(req, tst, pyt, pkg) ==
    [requirements_txt |-> req, tests |-> tst, pytest_glob |-> pyt,
     package_json |-> pkg]

FsStates ==
    { Dir(FALSE, FALSE, FALSE, TRUE),     \* Node project: package.json only
      Dir(TRUE, TRUE, FALSE, FALSE) }     \* Python project, no *pytest* file

(***************************************************************************)
(* The fix functions of WGUFighter.                                        *)
(***************************************************************************)
apply_python_fixes(d) ==
    (IF d.requirements_txt
     THEN <<"Updated Python dependencies in requirements.txt">> ELSE <<>>)
    \o (IF d.tests /\ ~d.pytest_glob
        THEN <<"Added pytest to test dependencies">> ELSE <<>>)
    \o <<"Updated PYTHONPATH configuration in workflows">>

apply_nodejs_fixes(d) ==
    IF d.package_json
    THEN <<"Updated Node.js dependencies", "Fixed npm cache configuration">>
    ELSE <<>>

apply_test_fixes(d) ==
    IF d.tests
    THEN <<"Fixed test discovery configuration",
           "Updated test environment variables">>
    ELSE <<>>

apply_dependency_fixes ==
    <<"Updated dependency installation order",
      "Fixed import path configurations">>

apply_workflow_fixes ==
    <<"Updated GitHub Actions to latest SHA-pinned versions",
      "Fixed workflow permissions and environment settings">>

apply_aggressive_fixes ==
    <<"Tried alternative runner environment configurations",
      "Applied experimental caching strategies",
      "Updated matrix build configurations",
      "Applied community-suggested fixes for similar issues">>

(***************************************************************************)
(* WGUFighter.apply_fighter_fixes: the if/elif chain over one pattern,     *)
(* then the whole method.                                                  *)
(***************************************************************************)
FixesForPattern(pattern, d) ==
    LET p == Lower(pattern) IN
    IF Contains(p, Kw_python) THEN apply_python_fixes(d)
    ELSE IF Contains(p, Kw_node) \/ Contains(p, Kw_npm)
         THEN apply_nodejs_fixes(d)
    ELSE IF Contains(p, Kw_test) THEN apply_test_fixes(d)
    ELSE IF Contains(p, Kw_dependency) \/ Contains(p, Kw_import)
         THEN apply_dependency_fixes
    ELSE IF Contains(p, Kw_action) \/ Contains(p, Kw_workflow)
         THEN apply_workflow_fixes
    ELSE <<>>

\* the branch of that chain a pattern takes, "none" when it takes none
DispatchedTo(pattern) ==
    LET p == Lower(pattern) IN
    IF Contains(p, Kw_python) THEN "apply_python_fixes"
    ELSE IF Contains(p, Kw_node) \/ Contains(p, Kw_npm)
         THEN "apply_nodejs_fixes"
    ELSE IF Contains(p, Kw_test) THEN "apply_test_fixes"
    ELSE IF Contains(p, Kw_dependency) \/ Contains(p, Kw_import)
         THEN "apply_dependency_fixes"
    ELSE IF Contains(p, Kw_action) \/ Contains(p, Kw_workflow)
         THEN "apply_workflow_fixes"
    ELSE "none"

apply_fighter_fixes(failing_workflows, d, aggr) ==
    LET failure_patterns == analyze_failure_patterns(failing_workflows)
    IN Concat([i \in DOMAIN failure_patterns |->
                  FixesForPattern(failure_patterns[i], d)])
       \o (IF aggr THEN apply_aggressive_fixes ELSE <<>>)

(***************************************************************************)
(* WGUFighter.detect_battle_loops                                          *)
(***************************************************************************)
detect_battle_loops_lists(history) ==
    IF Len(history) < 3 THEN FALSE
    ELSE LET recent_rounds == SubSeq(history, Len(history) - 2, Len(history))
         IN Cardinality({recent_rounds[i].failures_after : i \in 1..3}) = 1

detect_battle_loops(history) ==
    IF Len(history) < 3 THEN FALSE
    ELSE LET recent_rounds == SubSeq(history, Len(history) - 2, Len(history))
             recent_failures ==
                 [i \in 1..3 |-> ToSet(recent_rounds[i].failures_after)]
         IN Cardinality({recent_failures[i] : i \in 1..3}) = 1

(***************************************************************************)
(* WGUFighter.try_alternative_strategies: the fixes it appends to          *)
(* total_fixes_applied; it always returns True.                            *)
(***************************************************************************)
alternative_fixes ==
    <<"Tried different workflow runner versions",
      "Applied community-suggested workarounds",
      "Simplified workflow configurations to isolate issues">>

try_alternative_strategies_first(total) == alternative_fixes \o total

try_alternative_strategies_noop(total) == total

try_alternative_strategies(total) == total \o alternative_fixes

(***************************************************************************)
(* WGUFighter.write_battle_report: the sections of the file it writes.     *)
(***************************************************************************)
RecommendedStrategies ==
    <<"Try different runner environments (ubuntu-20.04 vs ubuntu-latest)",
      "Split complex workflows into smaller, focused jobs",
      "Research community solutions for similar persistent issues",
      "Consider alternative CI/CD approaches for problematic components",
      "Investigate if issues are environment-specific vs code-specific">>

write_battle_report_stale(history, total) ==
    [rounds_fought |-> Len(history),
     fixes_applied |-> Len(total),
     rates |-> IF history # <<>>
               THEN <<history[1].success_rate_before,
                      history[Len(history)].success_rate_after>>
               ELSE <<>>,
     fixes_attempted |-> [i \in DOMAIN total |-> <<i, total[i]>>],
     stubborn_issues |->
         IF history # <<>>
         THEN LET remaining_failures == history[Len(history)].failures_before
              IN [i \in DOMAIN remaining_failures |->
                     <<remaining_failures[i], Len(history)>>]
         ELSE <<>>,
     strategies |-> [i \in DOMAIN RecommendedStrategies |->
                        <<i, RecommendedStrategies[i]>>],
     next_round |-> Len(history) + 1]

write_battle_report(history, total) ==
    [rounds_fought |-> Len(history),
     fixes_applied |-> Len(total),
     rates |-> IF history # <<>>
               THEN <<history[1].success_rate_before,
                      history[Len(history)].success_rate_after>>
               ELSE <<>>,
     fixes_attempted |-> [i \in DOMAIN total |-> <<i, total[i]>>],
     stubborn_issues |->
         IF history # <<>>
         THEN LET remaining_failures == history[Len(history)].failures_after
              IN [i \in DOMAIN remaining_failures |->
                     <<remaining_failures[i], Len(history)>>]
         ELSE <<>>,
     strategies |-> [i \in DOMAIN RecommendedStrategies |->
                        <<i, RecommendedStrategies[i]>>],
     next_round |-> Len(history) + 1]

(***************************************************************************)
(* BattleRound (duration_minutes, a wall-clock reading that no decision    *)
(* depends on, is left out).                                               *)
(***************************************************************************)
BattleRound_stale(n, fixes, fb, fa, rb, ra) ==
    [round_number |-> n, fixes_applied |-> fixes,
     failures_before |-> fb, failures_after |-> fb,
     success_rate_before |-> rb, success_rate_after |-> ra]

BattleRound(n, fixes, fb, fa, rb, ra) ==
    [round_number |-> n, fixes_applied |-> fixes,
     failures_before |-> fb, failures_after |-> fa,
     success_rate_before |-> rb, success_rate_after |-> ra]

NoAssessment ==
    [workflows |-> <<>>, failures |-> <<>>, success_rate |-> 0, total |-> 0]

(***************************************************************************)
(* Decisions of fight_until_victory, execute_battle_round and              *)
(* wait_for_battle_results.                                                *)
(***************************************************************************)
InitialVictoryNoRuns(status) == status.workflows = <<>>

InitialVictory(status) == status.failures = <<>>

RoundInBudgetShort(n, max) == n \in 1..(max - 1)

RoundInBudgetOver(n, max) == n \in 1..(max + 1)

RoundInBudget(n, max) == n \in 1..max

IsVictoryStrict(battle_result) == battle_result.success_rate_after > 10000

IsVictory(battle_result) == battle_result.success_rate_after >= 10000

NothingToFix(failures_before) == failures_before = <<>>

IsRunning_noqueued(w) == w.status \in {"running", "pending"}

IsRunning(w) == w.status \in {"running", "pending", "queued"}

running_workflows(workflows) == SelectSeq(workflows, IsRunning)

(***************************************************************************)
(* WGUFighter.strategic_retreat: the file after the call.                  *)
(***************************************************************************)
strategic_retreat_nowrite(history, total) == <<>>

strategic_retreat(history, total) == <<write_battle_report(history, total)>>

(***************************************************************************)
(* main: exit status for a returned BattleStatus, and what the two except  *)
(* clauses leave in the report file.                                       *)
(***************************************************************************)
ExitStatus(status) ==
    IF status = VICTORY THEN 0
    ELSE IF status = STRATEGIC_RETREAT THEN 1
    ELSE 2

OnKeyboardInterrupt_nowrite(file, history, total) == file

OnKeyboardInterrupt(file, history, total) ==
    <<write_battle_report(history, total)>>

OnException(file, history, total) == file

(***************************************************************************)
(* Initial state: main has parsed its arguments and built the fighter.     *)
(***************************************************************************)
Init ==
    /\ max_rounds \in 0..MaxRounds
    /\ aggressive \in BOOLEAN
    /\ fs \in FsStates
    /\ battle_history = <<>>
    /\ total_fixes_applied = <<>>
    /\ pc = "main"
    /\ round_num = 0
    /\ round_fixes = <<>>
    /\ polls = 0
    /\ gave_up = FALSE
    /\ wait_workflows = <<>>
    /\ assessment = NoAssessment
    /\ loop_log = <<>>
    /\ result = "none"
    /\ raised = "none"
    /\ raised_at = "none"
    /\ report = <<>>
    /\ exit_code = -1
    /\ JobsIdle

(***************************************************************************)
(* main --surrender: write the report without fighting and return.         *)
(***************************************************************************)
Surrender ==
    /\ pc = "main"
    /\ report' = <<write_battle_report(<<>>, <<>>)>>
    /\ exit_code' = 0
    /\ pc' = "exited"
    /\ UNCHANGED <<max_rounds, aggressive, fs, battle_history,
                   total_fixes_applied, round_num, round_fixes, polls, gave_up,
                   assessment, loop_log, result, raised, raised_at>>
    /\ UNCHANGED wait_workflows
    /\ UNCHANGED jobs_vars

(***************************************************************************)
(* main calls fighter.fight_until_victory().                               *)
(***************************************************************************)
StartFight ==
    /\ pc = "main"
    /\ pc' = "initial"
    /\ UNCHANGED <<max_rounds, aggressive, fs, battle_history,
                   total_fixes_applied, round_num, round_fixes, polls, gave_up,
                   assessment, loop_log, result, raised, raised_at, report,
                   exit_code>>
    /\ UNCHANGED wait_workflows
    /\ UNCHANGED jobs_vars

(***************************************************************************)
(* fight_until_victory: the initial assessment.                            *)
(***************************************************************************)
InitialAssessment ==
    /\ pc = "initial"
    /\ \E resp \in Responses :
        LET initial_status == assess_battlefield(resp) IN
        /\ assessment' = initial_status
        /\ IF InitialVictory(initial_status)
           THEN /\ result' = VICTORY
                /\ pc' = "returned"
                /\ round_num' = round_num
           ELSE /\ result' = result
                /\ pc' = "loop_head"
                /\ round_num' = 1
    /\ UNCHANGED <<max_rounds, aggressive, fs, battle_history,
                   total_fixes_applied, round_fixes, polls, gave_up, loop_log,
                   raised, raised_at, report, exit_code>>
    /\ UNCHANGED wait_workflows
    /\ UNCHANGED jobs_vars

(***************************************************************************)
(* fight_until_victory, after execute_battle_round has returned            *)
(* battle_result: append it, check for victory, then for loops, then go    *)
(* to the next iteration.                                                  *)
(***************************************************************************)
FinishRound(battle_result) ==
    LET history == Append(battle_history, battle_result) IN
    /\ battle_history' = history
    /\ IF IsVictory(battle_result)
       THEN /\ result' = VICTORY
            /\ pc' = "returned"
            /\ UNCHANGED <<loop_log, total_fixes_applied, round_num>>
       ELSE LET looping == detect_battle_loops(history) IN
            /\ loop_log' = Append(loop_log, <<round_num, looping>>)
            /\ total_fixes_applied' =
                   IF looping
                   THEN try_alternative_strategies(total_fixes_applied)
                   ELSE total_fixes_applied
            /\ round_num' = round_num + 1
            /\ pc' = "loop_head"
            /\ result' = result

(***************************************************************************)
(* execute_battle_round, first half: assess, and either short-circuit or   *)
(* apply the fixes and start waiting.                                      *)
(***************************************************************************)
BeginRound ==
    /\ pc = "loop_head"
    /\ RoundInBudget(round_num, max_rounds)
    /\ \E resp \in Responses :
        LET pre_state == assess_battlefield(resp)
            failures_before == NamesOf(pre_state.failures)
        IN
        /\ assessment' = pre_state
        /\ IF NothingToFix(failures_before)
           THEN /\ FinishRound(BattleRound(round_num, <<>>, <<>>, <<>>,
                                           pre_state.success_rate, 10000))
                /\ UNCHANGED <<round_fixes, polls, gave_up, wait_workflows>>
           ELSE LET fixes_applied ==
                        apply_fighter_fixes(failures_before, fs, aggressive)
                IN
                /\ round_fixes' = fixes_applied
                /\ total_fixes_applied' = total_fixes_applied \o fixes_applied
                /\ polls' = 0
                /\ gave_up' = FALSE
                /\ wait_workflows' = <<>>
                /\ pc' = "wait"
                /\ UNCHANGED <<battle_history, loop_log, result, round_num>>
    /\ UNCHANGED <<max_rounds, aggressive, fs, raised, raised_at, report,
                   exit_code>>
    /\ UNCHANGED jobs_vars

(***************************************************************************)
(* wait_for_battle_results: one iteration of the poll loop.  The elapsed   *)
(* wait may exceed the ceiling at any poll and does after MaxWaitPolls     *)
(* sleeps.                                                                 *)
(***************************************************************************)
WaitPoll ==
    /\ pc = "wait"
    /\ \E resp \in Responses :
        LET workflows == get_recent_workflow_status(resp) IN
        /\ wait_workflows' = workflows
        /\ IF running_workflows(workflows) = <<>>
           THEN /\ pc' = "post"
                /\ polls' = 0
                /\ gave_up' = gave_up
           ELSE \E over_ceiling \in {TRUE} \cup
                                 (IF polls < MaxWaitPolls THEN {FALSE} ELSE {}) :
                   IF over_ceiling
                   THEN /\ gave_up' = TRUE
                        /\ pc' = "post"
                        /\ polls' = 0
                   ELSE /\ polls' = polls + 1
                        /\ pc' = "wait"
                        /\ gave_up' = gave_up
    /\ UNCHANGED <<max_rounds, aggressive, fs, battle_history,
                   total_fixes_applied, round_num, round_fixes, assessment,
                   loop_log, result, raised, raised_at, report, exit_code>>
    /\ UNCHANGED jobs_vars

(***************************************************************************)
(* execute_battle_round, second half: reassess and package the round.      *)
(***************************************************************************)
ReassessRound ==
    /\ pc = "post"
    /\ \E resp \in Responses :
        LET post_state == assess_battlefield(resp)
            pre_state == assessment
        IN
        /\ assessment' = post_state
        /\ FinishRound(BattleRound(round_num, round_fixes,
                                   NamesOf(pre_state.failures),
                                   NamesOf(post_state.failures),
                                   pre_state.success_rate,
                                   post_state.success_rate))
    /\ gave_up' = FALSE
    /\ wait_workflows' = <<>>
    /\ UNCHANGED <<max_rounds, aggressive, fs, round_fixes, polls,
                   raised, raised_at, report, exit_code>>
    /\ UNCHANGED jobs_vars

(***************************************************************************)
(* fight_until_victory: the loop is over, strategic_retreat().             *)
(***************************************************************************)
StrategicRetreat ==
    /\ pc = "loop_head"
    /\ ~RoundInBudget(round_num, max_rounds)
    /\ report' = strategic_retreat(battle_history, total_fixes_applied)
    /\ result' = STRATEGIC_RETREAT
    /\ pc' = "returned"
    /\ UNCHANGED <<max_rounds, aggressive, fs, battle_history,
                   total_fixes_applied, round_num, round_fixes, polls, gave_up,
                   assessment, loop_log, raised, raised_at, exit_code>>
    /\ UNCHANGED wait_workflows
    /\ UNCHANGED jobs_vars

(***************************************************************************)
(* main: sys.exit on the returned status.                                  *)
(***************************************************************************)
ExitOnResult ==
    /\ pc = "returned"
    /\ exit_code' = ExitStatus(result)
    /\ pc' = "exited"
    /\ UNCHANGED <<max_rounds, aggressive, fs, battle_history,
                   total_fixes_applied, round_num, round_fixes, polls, gave_up,
                   assessment, loop_log, result, raised, raised_at, report>>
    /\ UNCHANGED wait_workflows
    /\ UNCHANGED jobs_vars

(***************************************************************************)
(* An exception other than CalledProcessError / JSONDecodeError leaves a   *)
(* platform call (gh not installed, a run without a 'name' key, ...),      *)
(* unwinds fight_until_victory and reaches main's except Exception clause. *)
(***************************************************************************)
InFight == pc \in {"initial", "loop_head", "wait", "post"}

AtPlatformCall ==
    \/ pc \in {"initial", "wait", "post"}
    \/ pc = "loop_head" /\ RoundInBudget(round_num, max_rounds)

UnexpectedException ==
    /\ AtPlatformCall
    /\ raised' = "Exception"
    /\ raised_at' = pc
    /\ report' = OnException(report, battle_history, total_fixes_applied)
    /\ exit_code' = 1
    /\ pc' = "exited"
    /\ UNCHANGED <<max_rounds, aggressive, fs, battle_history,
                   total_fixes_applied, round_num, round_fixes, polls, gave_up,
                   assessment, loop_log, result>>
    /\ UNCHANGED wait_workflows
    /\ UNCHANGED jobs_vars

(***************************************************************************)
(* Ctrl-C while fight_until_victory runs: main's except KeyboardInterrupt  *)
(* clause writes the report and exits.                                     *)
(***************************************************************************)
Interrupt ==
    /\ InFight
    /\ raised' = "KeyboardInterrupt"
    /\ raised_at' = pc
    /\ report' = OnKeyboardInterrupt(report, battle_history, total_fixes_applied)
    /\ exit_code' = 130
    /\ pc' = "exited"
    /\ UNCHANGED <<max_rounds, aggressive, fs, battle_history,
                   total_fixes_applied, round_num, round_fixes, polls, gave_up,
                   assessment, loop_log, result>>
    /\ UNCHANGED wait_workflows
    /\ UNCHANGED jobs_vars

Next ==
    \/ Surrender
    \/ StartFight
    \/ InitialAssessment
    \/ BeginRound
    \/ WaitPoll
    \/ ReassessRound
    \/ StrategicRetreat
    \/ ExitOnResult
    \/ UnexpectedException
    \/ Interrupt

Spec == Init /\ [][Next]_vars

(***************************************************************************)
(* The process keeps running until it exits: no step is postponed forever. *)
(***************************************************************************)
FairSpec == Spec /\ WF_vars(Next)

TypeOK ==
    /\ max_rounds \in 0..MaxRounds
    /\ pc \in {"main", "initial", "loop_head", "wait", "post", "returned",
               "exited"}
    /\ result \in {"none"} \cup BattleStatus
    /\ Len(report) <= 1
    /\ exit_code \in {-1, 0, 1, 2, 130}

(***************************************************************************)
(* detect_battle_loops as a function of an arbitrary history: the history  *)
(* is drawn from the lists of at most MaxHistory rounds over RoundInputs   *)
(* and the method is called once.                                          *)
(***************************************************************************)
MaxHistory == 3

FailureLists ==
    { <<>>, <<"ci">>, <<"ci", "ci">>, <<"ci", "tests">>, <<"tests", "ci">> }

RoundInputs ==
    { BattleRound(0, fixes, <<"ci">>, fa, 0, 5000) :
        fixes \in { <<>>, apply_workflow_fixes }, fa \in FailureLists }

HistoryInputs ==
    UNION { [1..n -> RoundInputs] : n \in 0..MaxHistory }

DetectInit ==
    /\ max_rounds = 0
    /\ aggressive = FALSE
    /\ fs = Dir(FALSE, FALSE, FALSE, FALSE)
    /\ battle_history \in HistoryInputs
    /\ total_fixes_applied = <<>>
    /\ pc = "detect"
    /\ round_num = 0
    /\ round_fixes = <<>>
    /\ polls = 0
    /\ gave_up = FALSE
    /\ wait_workflows = <<>>
    /\ assessment = NoAssessment
    /\ loop_log = <<>>
    /\ result = "none"
    /\ raised = "none"
    /\ raised_at = "none"
    /\ report = <<>>
    /\ exit_code = -1
    /\ JobsIdle

DetectCall ==
    /\ pc = "detect"
    /\ loop_log' = <<<<Len(battle_history), detect_battle_loops(battle_history)>>>>
    /\ pc' = "detected"
    /\ UNCHANGED <<max_rounds, aggressive, fs, battle_history,
                   total_fixes_applied, round_num, round_fixes, polls, gave_up,
                   assessment, result, raised, raised_at, report, exit_code>>
    /\ UNCHANGED wait_workflows
    /\ UNCHANGED jobs_vars

DetectNext == DetectCall

DetectSpec == DetectInit /\ [][DetectNext]_vars

(***************************************************************************)
(* GitHubActionsJobsManager and JobsFailedInvestigateCommand of            *)
(* src/gha_jobs_commands.py.  A log is a tuple of one-character strings;   *)
(* confidences and thresholds are Python floats in the source and exact    *)
(* integers in hundredths here (0.85 = 85).                                *)
(*                                                                         *)
(* The five regular expressions of the signature table have four shapes:   *)
(* a literal; a literal followed by ['"]([^'"]+)['"]; a literal followed   *)
(* by (.+); and a literal, .*, and a second literal.  re.IGNORECASE is     *)
(* modelled by matching the lower-cased literals against the lower-cased   *)
(* log; re.MULTILINE has no effect on expressions without ^ or $.          *)
(***************************************************************************)
Rx(shape, lit, lit2) == [shape |-> shape, lit |-> lit, lit2 |-> lit2]

Rx_npm_package_not_found == \* r"npm ERR! code ENOENT"
    Rx("literal",
       <<"n","p","m"," ","e","r","r","!"," ","c","o","d","e"," ","e","n",
         "o","e","n","t">>,
       <<>>)

Rx_python_module_missing == \* r"ModuleNotFoundError: No module named ['\"]([^'\"]+)['\"]"
    Rx("quoted",
       <<"m","o","d","u","l","e","n","o","t","f","o","u","n","d","e","r",
         "r","o","r",":"," ","n","o"," ","m","o","d","u","l","e"," ","n",
         "a","m","e","d"," ">>,
       <<>>)

Rx_test_failure_assertion == \* r"AssertionError: (.+)"
    Rx("rest",
       <<"a","s","s","e","r","t","i","o","n","e","r","r","o","r",":"," ">>,
       <<>>)

Rx_docker_permission_denied == \* r"docker: Error response from daemon.*permission denied"
    Rx("upto",
       <<"d","o","c","k","e","r",":"," ","e","r","r","o","r"," ","r","e",
         "s","p","o","n","s","e"," ","f","r","o","m"," ","d","a","e","m",
         "o","n">>,
       <<"p","e","r","m","i","s","s","i","o","n"," ","d","e","n","i","e","d">>)

Rx_cache_restore_failed == \* r"Failed to restore cache entry"
    Rx("literal",
       <<"f","a","i","l","e","d"," ","t","o"," ","r","e","s","t","o","r",
         "e"," ","c","a","c","h","e"," ","e","n","t","r","y">>,
       <<>>)

PatternDef(name, regex, confidence, description, fix) ==
    [name |-> name, regex |-> regex, confidence |-> confidence,
     description |-> description, fix |-> fix]

failure_patterns ==
    << PatternDef("npm_package_not_found", Rx_npm_package_not_found, 90,
                  "Missing package.json or wrong working directory",
                  "Add working-directory or check package.json location"),
       PatternDef("python_module_missing", Rx_python_module_missing, 85,
                  "Missing Python module dependency",
                  "Add missing module to requirements.txt or install step"),
       PatternDef("test_failure_assertion", Rx_test_failure_assertion, 70,
                  "Test assertion failure",
                  "Review test logic and expected vs actual values"),
       PatternDef("docker_permission_denied", Rx_docker_permission_denied, 85,
                  "Docker permission or access issue",
                  "Check Docker permissions and registry access"),
       PatternDef("cache_restore_failed", Rx_cache_restore_failed, 60,
                  "Cache restoration failure",
                  "Update cache keys or add restore-keys fallback") >>

IsQuote(c) == c \in {"'", "\""}

LitAt(s, i, lit) ==
    /\ i + Len(lit) - 1 <= Len(s)
    /\ SubSeq(s, i, i + Len(lit) - 1) = lit

\* last position of the run of non-newline characters that starts at j
\* (j - 1 when there is none)
LineEnd(s, j) ==
    LET newlines == {k \in j..Len(s) : s[k] = "\n"} IN
    IF newlines = {} THEN Len(s)
    ELSE (CHOOSE k \in newlines : \A l \in newlines : k <= l) - 1

\* first position at or after j that holds a quote, 0 when there is none
NextQuote(s, j) ==
    LET quotes == {k \in j..Len(s) : IsQuote(s[k])} IN
    IF quotes = {} THEN 0
    ELSE CHOOSE k \in quotes : \A l \in quotes : k <= l

\* last position in from..to at which lit starts and ends by to, 0 if none
LastLitAt(s, from, to, lit) ==
    LET starts == {p \in from..(to - Len(lit) + 1) : LitAt(s, p, lit)} IN
    IF starts = {} THEN 0
    ELSE CHOOSE p \in starts : \A q \in starts : q <= p

\* position of the last character of the match of rx that starts at i in
\* the lower-cased log s, 0 when rx does not match at i
MatchEnd(rx, s, i) ==
    LET j == i + Len(rx.lit) IN
    IF ~LitAt(s, i, rx.lit) THEN 0
    ELSE IF rx.shape = "literal" THEN j - 1
    ELSE IF rx.shape = "quoted" THEN
        IF j <= Len(s) /\ IsQuote(s[j])
        THEN LET k == NextQuote(s, j + 1) IN
             IF k >= j + 2 THEN k ELSE 0
        ELSE 0
    ELSE IF rx.shape = "rest" THEN
        IF LineEnd(s, j) >= j THEN LineEnd(s, j) ELSE 0
    ELSE \* "upto"
        LET p == LastLitAt(s, j, LineEnd(s, j), rx.lit2) IN
        IF p = 0 THEN 0 ELSE p + Len(rx.lit2) - 1

\* re.finditer: the non-overlapping matches from left to right, searching
\* the lower-cased log s from position p on
RECURSIVE finditer_from(_, _, _)
finditer_from(rx, s, p) ==
    LET starts == {i \in p..Len(s) : MatchEnd(rx, s, i) > 0} IN
    IF starts = {} THEN <<>>
    ELSE LET i == CHOOSE k \in starts : \A l \in starts : k <= l
             e == MatchEnd(rx, s, i)
         IN <<[start |-> i, end |-> e]>> \o finditer_from(rx, s, e + 1)

finditer(rx, log) == finditer_from(rx, Lower(log), 1)

FailurePattern(pattern_def, log, match) ==
    [pattern_name |-> pattern_def.name,
     error_signature |-> SubSeq(log, match.start, match.end),
     confidence |-> pattern_def.confidence,
     description |-> pattern_def.description,
     suggested_fix |-> pattern_def.fix]

PatternsOf(pattern_def, log) ==
    LET matches == finditer(pattern_def.regex, log) IN
    [m \in DOMAIN matches |-> FailurePattern(pattern_def, log, matches[m])]

\* the patterns of the first signature of the table that matches, only
manager_analyze_failure_patterns_first(log) ==
    LET hits == {d \in DOMAIN failure_patterns :
                    PatternsOf(failure_patterns[d], log) # <<>>}
    IN IF hits = {} THEN <<>>
       ELSE PatternsOf(failure_patterns[CHOOSE d \in hits :
                                           \A e \in hits : d <= e], log)

\* GitHubActionsJobsManager.analyze_failure_patterns (the fighter has a
\* method of the same name, modelled above)
manager_analyze_failure_patterns(log) ==
    Concat([d \in DOMAIN failure_patterns |->
               PatternsOf(failure_patterns[d], log)])

(***************************************************************************)
(* JobsFailedInvestigateCommand._investigate_run and its helpers.  The     *)
(* fields file_context, line_number and log_excerpt are not modelled.      *)
(***************************************************************************)
high_confidence_patterns_below(patterns, confidence_threshold) ==
    SelectSeq(patterns, LAMBDA p : p.confidence <= confidence_threshold)

high_confidence_patterns(patterns, confidence_threshold) ==
    SelectSeq(patterns, LAMBDA p : p.confidence >= confidence_threshold)

MaxConfidence(patterns) ==
    CHOOSE c \in {patterns[i].confidence : i \in DOMAIN patterns} :
        \A i \in DOMAIN patterns : patterns[i].confidence <= c

MinConfidence(patterns) ==
    CHOOSE c \in {patterns[i].confidence : i \in DOMAIN patterns} :
        \A i \in DOMAIN patterns : patterns[i].confidence >= c

\* patterns.sort(key=lambda p: p.confidence): ascending instead of descending
RECURSIVE sort_by_confidence_ascending(_)
sort_by_confidence_ascending(patterns) ==
    IF patterns = <<>> THEN <<>>
    ELSE LET low == MinConfidence(patterns) IN
         SelectSeq(patterns, LAMBDA p : p.confidence = low)
             \o sort_by_confidence_ascending(
                    SelectSeq(patterns, LAMBDA p : p.confidence # low))

\* patterns.sort(key=lambda p: p.confidence, reverse=True): list.sort is
\* stable, so patterns of equal confidence keep their order
RECURSIVE sort_by_confidence(_)
sort_by_confidence(patterns) ==
    IF patterns = <<>> THEN <<>>
    ELSE LET top == MaxConfidence(patterns) IN
         SelectSeq(patterns, LAMBDA p : p.confidence = top)
             \o sort_by_confidence(
                    SelectSeq(patterns, LAMBDA p : p.confidence # top))

\* a root-cause string: text, followed by f" (plus {n} related issues)"
\* for plus = <<n>> and by nothing for plus = <<>>
RootCause(text, plus) == [text |-> text, plus |-> plus]

UnableToIdentify ==
    RootCause("Unable to identify specific root cause from available patterns",
              <<>>)

_determine_root_cause(patterns) ==
    IF patterns = <<>> THEN UnableToIdentify
    ELSE LET primary == sort_by_confidence(patterns)[1] IN
         IF Len(patterns) = 1
         THEN RootCause(primary.description, <<>>)
         ELSE RootCause(primary.description, <<Len(patterns) - 1>>)

\* f"(bullet) {text}"
Bullet(text) == <<"* ", text>>

GenericRecommendations ==
    << Bullet("Review workflow logs for specific error messages"),
       Bullet("Check recent code changes that might have caused the failure"),
       Bullet("Verify environment setup and dependencies") >>

_generate_recommendations(patterns) ==
    LET recommendations ==
            [i \in DOMAIN patterns |-> Bullet(patterns[i].suggested_fix)]
    IN IF recommendations = <<>> THEN GenericRecommendations
       ELSE recommendations

\* exact fractions num / den with den > 0
Rat(n, d) == [num |-> n, den |-> d]

RatLeq(a, b) == a.num * b.den <= b.num * a.den

RatLess(a, b) == a.num * b.den < b.num * a.den

RatEq(a, b) == a.num * b.den = b.num * a.den

RECURSIVE SumSeq(_)
SumSeq(s) == IF s = <<>> THEN 0 ELSE Head(s) + SumSeq(Tail(s))

Confidences(patterns) == [i \in DOMAIN patterns |-> patterns[i].confidence]

Squares(s) == [i \in DOMAIN s |-> s[i] * s[i]]

\* sum(c * c) / sum(c) of confidences in hundredths, as a fraction of 1
weighted_avg(patterns) ==
    Rat(SumSeq(Squares(Confidences(patterns))),
        100 * SumSeq(Confidences(patterns)))

_calculate_overall_confidence_nocap(patterns) ==
    IF patterns = <<>> THEN Rat(30, 100)
    ELSE IF SumSeq(Confidences(patterns)) = 0 THEN Rat(30, 100)
    ELSE weighted_avg(patterns)

_calculate_overall_confidence(patterns) ==
    IF patterns = <<>> THEN Rat(30, 100)
    ELSE IF SumSeq(Confidences(patterns)) = 0 THEN Rat(30, 100)
    ELSE IF RatLeq(weighted_avg(patterns), Rat(95, 100))
         THEN weighted_avg(patterns)
         ELSE Rat(95, 100)

\* _determine_root_cause sorts its argument in place, so the recommendations,
\* the overall confidence and the returned patterns see the sorted list
_investigate_run(logs, confidence_threshold) ==
    LET patterns == manager_analyze_failure_patterns(logs)
        filtered == high_confidence_patterns(patterns, confidence_threshold)
        root_cause == _determine_root_cause(filtered)
        sorted == sort_by_confidence(filtered)
    IN [patterns |-> sorted,
        root_cause |-> root_cause,
        fix_recommendations |-> _generate_recommendations(sorted),
        confidence |-> _calculate_overall_confidence(sorted)]

(***************************************************************************)
(* Investigations of one failed run: the log is drawn from the logs of at  *)
(* most MaxLogLines lines over LogLines, and the command is executed with  *)
(* one confidence threshold after the other.                               *)
(***************************************************************************)
MaxLogLines == 2

Line_npm ==
    <<"n","p","m"," ","E","R","R","!"," ","c","o","d","e"," ","E","N","O",
      "E","N","T">>

Line_npm_twice ==
    <<"n","p","m"," ","e","r","r","!"," ","c","o","d","e"," ","e","n","o",
      "e","n","t"," ","n","p","m"," ","E","R","R","!"," ","c","o","d","e",
      " ","E","N","O","E","N","T">>

Line_module ==
    <<"M","o","d","u","l","e","N","o","t","F","o","u","n","d","E","r","r",
      "o","r",":"," ","N","o"," ","m","o","d","u","l","e"," ","n","a","m",
      "e","d"," ","'","y","a","m","l","'">>

Line_assertion_cache ==
    <<"A","s","s","e","r","t","i","o","n","E","r","r","o","r",":"," ","F",
      "a","i","l","e","d"," ","t","o"," ","r","e","s","t","o","r","e"," ",
      "c","a","c","h","e"," ","e","n","t","r","y">>

Line_docker ==
    <<"d","o","c","k","e","r",":"," ","E","r","r","o","r"," ","r","e","s",
      "p","o","n","s","e"," ","f","r","o","m"," ","d","a","e","m","o","n",
      ":"," ","p","e","r","m","i","s","s","i","o","n"," ","d","e","n","i",
      "e","d">>

Line_noise ==
    <<"B","u","i","l","d"," ","f","i","n","i","s","h","e","d">>

LogLines ==
    { Line_npm, Line_npm_twice, Line_module, Line_assertion_cache,
      Line_docker, Line_noise }

RECURSIVE JoinLines(_)
JoinLines(lines) ==
    IF lines = <<>> THEN <<>>
    ELSE IF Len(lines) = 1 THEN lines[1]
    ELSE lines[1] \o <<"\n">> \o JoinLines(Tail(lines))

Logs == { JoinLines(ls) : ls \in UNION { [1..n -> LogLines] : n \in 0..MaxLogLines } }

\* 0.6 is the default of --confidence; 0.5 and 0.85 are used by
\* test_investigate_with_confidence_threshold
Thresholds == {50, 60, 70, 85, 95}

\* the fighter is not running
FighterIdle ==
    /\ max_rounds = 0
    /\ aggressive = FALSE
    /\ fs = Dir(FALSE, FALSE, FALSE, FALSE)
    /\ battle_history = <<>>
    /\ total_fixes_applied = <<>>
    /\ pc = "idle"
    /\ round_num = 0
    /\ round_fixes = <<>>
    /\ polls = 0
    /\ gave_up = FALSE
    /\ wait_workflows = <<>>
    /\ assessment = NoAssessment
    /\ loop_log = <<>>
    /\ result = "none"
    /\ raised = "none"
    /\ raised_at = "none"
    /\ report = <<>>
    /\ exit_code = -1

InvestigateInit ==
    /\ FighterIdle
    /\ ToolsIdle
    /\ ConfidenceIdle
    /\ QueryIdle
    /\ FixIdle
    /\ log_content \in Logs
    /\ run_patterns = <<>>
    /\ investigations = <<>>

Investigate(confidence_threshold) ==
    /\ confidence_threshold \notin DOMAIN investigations
    /\ run_patterns' = manager_analyze_failure_patterns(log_content)
    /\ investigations' =
           [t \in DOMAIN investigations \cup {confidence_threshold} |->
               IF t = confidence_threshold
               THEN _investigate_run(log_content, confidence_threshold)
               ELSE investigations[t]]
    /\ UNCHANGED <<log_content, confidence_vars, query_vars, fix_vars,
                   tools_vars>>
    /\ UNCHANGED fighter_vars

InvestigateNext == \E t \in Thresholds : Investigate(t)

InvestigateSpec == InvestigateInit /\ [][InvestigateNext]_vars

(***************************************************************************)
(* _calculate_overall_confidence as a function of an arbitrary pattern     *)
(* list: the confidences are drawn from ConfidenceInputs, values of the    *)
(* range [0, 1] that FailurePattern.confidence may take.                   *)
(***************************************************************************)
MaxPatterns == 3

ConfidenceInputs == {0, 60, 85, 90, 100}

PatternInputs ==
    { [pattern_name |-> "test", error_signature |-> <<>>, confidence |-> c,
       description |-> "Test", suggested_fix |-> "Fix"] :
        c \in ConfidenceInputs }

ConfidenceInit ==
    /\ FighterIdle
    /\ ToolsIdle
    /\ InvestigateIdle
    /\ QueryIdle
    /\ FixIdle
    /\ conf_patterns \in UNION { [1..n -> PatternInputs] : n \in 0..MaxPatterns }
    /\ overall_confidence = <<>>

ConfidenceCall ==
    /\ overall_confidence = <<>>
    /\ overall_confidence' = <<_calculate_overall_confidence(conf_patterns)>>
    /\ UNCHANGED <<conf_patterns, investigate_vars, query_vars, fix_vars,
                   tools_vars>>
    /\ UNCHANGED fighter_vars

ConfidenceNext == ConfidenceCall

ConfidenceSpec == ConfidenceInit /\ [][ConfidenceNext]_vars

(***************************************************************************)
(* Platform queries of the jobs manager (src/gha_jobs_commands.py), the    *)
(* failure analyzer (src/failure-analyzer.py) and the fighter.             *)
(* subprocess.run either raises (the gh binary cannot be executed) or      *)
(* returns an exit status and the standard output, which for the JSON      *)
(* queries parses or does not.  No caller passes a timeout to              *)
(* subprocess.run, so TimeoutExpired is never raised.                      *)
(***************************************************************************)
Process(raises, returncode, is_json, stdout) ==
    [raises |-> raises, returncode |-> returncode, is_json |-> is_json,
     stdout |-> stdout]

FailedOutcomes ==
    { Process("PermissionError", 0, FALSE, <<>>),
      Process("none", 1, FALSE, <<>>) }

RunListOutcomes ==
    FailedOutcomes
    \cup { Process("none", 0, FALSE, <<>>) }
    \cup { Process("none", 0, TRUE, r) :
             r \in { <<>>, <<Run("ci", "completed", "failure"),
                             Run("ci", "completed", "success")>> } }

JobListOutcomes ==
    FailedOutcomes
    \cup { Process("none", 0, FALSE, <<>>) }
    \cup { Process("none", 0, TRUE, j) :
             j \in { <<>>, <<[name |-> "build", conclusion |-> "failure"]>> } }

LogOutcomes ==
    FailedOutcomes
    \cup { Process("none", 0, FALSE, l) : l \in { <<>>, Line_npm } }

\* subprocess.run(cmd, ..., check=True)
run_checked(o) ==
    IF o.raises # "none" THEN o.raises
    ELSE IF o.returncode # 0 THEN "CalledProcessError"
    ELSE "none"

\* subprocess.run(cmd, ...)
run_unchecked(o) == o.raises

\* json.loads(result.stdout)
json_loads(o) == IF o.is_json THEN "none" ELSE "JSONDecodeError"

Returned(value) == [raised |-> "none", value |-> value]

Raised(exc) == [raised |-> exc, value |-> <<>>]

\* try: ... return value / except <caught>: return default
TryExcept(exc, value, caught, default) ==
    IF exc = "none" THEN Returned(value)
    ELSE IF exc \in caught THEN Returned(default)
    ELSE Raised(exc)

\* except Exception
AnyException == {"CalledProcessError", "JSONDecodeError", "PermissionError"}

\* GitHubActionsJobsManager.get_recent_runs
manager_get_recent_runs(o) ==
    TryExcept(IF run_checked(o) # "none" THEN run_checked(o) ELSE json_loads(o),
              o.stdout, {"CalledProcessError", "JSONDecodeError"}, <<>>)

\* GitHubActionsJobsManager.get_run_logs
manager_get_run_logs(o) ==
    TryExcept(run_checked(o), o.stdout, {"CalledProcessError"}, <<>>)

\* GitHubActionsFailureAnalyzer.get_recent_workflow_runs
analyzer_get_recent_workflow_runs(o) ==
    TryExcept(IF run_unchecked(o) # "none" THEN run_unchecked(o)
              ELSE IF o.returncode = 0 THEN json_loads(o)
              ELSE "none",
              IF o.returncode = 0 THEN o.stdout ELSE <<>>,
              AnyException, <<>>)

\* GitHubActionsFailureAnalyzer.get_run_logs
analyzer_get_run_logs(o) ==
    TryExcept(run_unchecked(o),
              IF o.returncode = 0 THEN o.stdout ELSE <<>>,
              AnyException, <<>>)

\* GitHubActionsFailureAnalyzer.get_run_jobs
analyzer_get_run_jobs(o) ==
    TryExcept(IF run_unchecked(o) # "none" THEN run_unchecked(o)
              ELSE IF o.returncode = 0 THEN json_loads(o)
              ELSE "none",
              IF o.returncode = 0 THEN o.stdout ELSE <<>>,
              AnyException, <<>>)

\* WGUFighter.get_recent_workflow_status on the outcome of its gh call
fighter_get_recent_workflow_status(o) ==
    LET exc == IF run_checked(o) # "none" THEN run_checked(o)
               ELSE json_loads(o)
    IN TryExcept(exc,
                 get_recent_workflow_status([kind |-> "ok", runs |-> o.stdout]),
                 {"CalledProcessError", "JSONDecodeError"},
                 get_recent_workflow_status([kind |-> exc, runs |-> <<>>]))

(***************************************************************************)
(* The queries a program makes, one after the other; an exception that     *)
(* leaves a query ends the program.                                        *)
(***************************************************************************)
MaxQueries == 2

QueryInit ==
    /\ FighterIdle
    /\ ToolsIdle
    /\ InvestigateIdle
    /\ ConfidenceIdle
    /\ FixIdle
    /\ queries = <<>>

CanQuery ==
    /\ Len(queries) < MaxQueries
    /\ \A i \in DOMAIN queries : queries[i].result.raised = "none"

Logged(method, o, returned) ==
    Append(queries, [method |-> method, outcome |-> o, result |-> returned])

ManagerGetRecentRuns ==
    /\ CanQuery
    /\ \E o \in RunListOutcomes :
           queries' = Logged("GitHubActionsJobsManager.get_recent_runs", o,
                             manager_get_recent_runs(o))
    /\ UNCHANGED <<investigate_vars, confidence_vars, fix_vars, tools_vars>>
    /\ UNCHANGED fighter_vars

ManagerGetRunLogs ==
    /\ CanQuery
    /\ \E o \in LogOutcomes :
           queries' = Logged("GitHubActionsJobsManager.get_run_logs", o,
                             manager_get_run_logs(o))
    /\ UNCHANGED <<investigate_vars, confidence_vars, fix_vars, tools_vars>>
    /\ UNCHANGED fighter_vars

AnalyzerGetRecentWorkflowRuns ==
    /\ CanQuery
    /\ \E o \in RunListOutcomes :
           queries' = Logged("GitHubActionsFailureAnalyzer.get_recent_workflow_runs", o,
                             analyzer_get_recent_workflow_runs(o))
    /\ UNCHANGED <<investigate_vars, confidence_vars, fix_vars, tools_vars>>
    /\ UNCHANGED fighter_vars

AnalyzerGetRunLogs ==
    /\ CanQuery
    /\ \E o \in LogOutcomes :
           queries' = Logged("GitHubActionsFailureAnalyzer.get_run_logs", o,
                             analyzer_get_run_logs(o))
    /\ UNCHANGED <<investigate_vars, confidence_vars, fix_vars, tools_vars>>
    /\ UNCHANGED fighter_vars

AnalyzerGetRunJobs ==
    /\ CanQuery
    /\ \E o \in JobListOutcomes :
           queries' = Logged("GitHubActionsFailureAnalyzer.get_run_jobs", o,
                             analyzer_get_run_jobs(o))
    /\ UNCHANGED <<investigate_vars, confidence_vars, fix_vars, tools_vars>>
    /\ UNCHANGED fighter_vars

FighterGetRecentWorkflowStatus ==
    /\ CanQuery
    /\ \E o \in RunListOutcomes :
           queries' = Logged("WGUFighter.get_recent_workflow_status", o,
                             fighter_get_recent_workflow_status(o))
    /\ UNCHANGED <<investigate_vars, confidence_vars, fix_vars, tools_vars>>
    /\ UNCHANGED fighter_vars

QueryNext ==
    \/ ManagerGetRecentRuns
    \/ ManagerGetRunLogs
    \/ AnalyzerGetRecentWorkflowRuns
    \/ AnalyzerGetRunLogs
    \/ AnalyzerGetRunJobs
    \/ FighterGetRecentWorkflowStatus

QuerySpec == QueryInit /\ [][QueryNext]_vars

(***************************************************************************)
(* The fix and improve routines that hand a workflow file to the           *)
(* generative delegate and write its answer back:                          *)
(* fix_workflow_with_failure_context (claude-agent-github-actions-         *)
(* enhanced.py), improve_workflow_concurrent (claude-agent-github-         *)
(* actions.py) and one iteration of improve_existing_workflows             *)
(* (github-actions-improver-v2.py).  The delegate's answer is a tuple of   *)
(* one-character strings, <<>> when the call failed.                       *)
(***************************************************************************)
\* the backquote character, which a TLA+ string cannot hold
BT == "(backquote)"

Fence == <<BT,BT,BT>>

FenceYaml == <<BT,BT,BT,"y","a","m","l">>

Kw_name_colon == <<"n","a","m","e",":">>

Kw_on_colon == <<"o","n",":">>

Kw_jobs_colon == <<"j","o","b","s",":">>

\* position of the first occurrence of sep in s, 0 when there is none
IndexOf(s, sep) ==
    LET found == {i \in 1..(Len(s) - Len(sep) + 1) :
                     SubSeq(s, i, i + Len(sep) - 1) = sep}
    IN IF found = {} THEN 0
       ELSE CHOOSE i \in found : \A j \in found : i <= j

\* str.split(sep)
RECURSIVE Split(_, _)
Split(s, sep) ==
    LET i == IndexOf(s, sep) IN
    IF i = 0 THEN <<s>>
    ELSE <<SubSeq(s, 1, i - 1)>>
         \o Split(SubSeq(s, i + Len(sep), Len(s)), sep)

IsSpace(c) == c \in {" ", "\n", "\t", "\r"}

\* str.strip()
Strip(s) ==
    LET inked == {i \in DOMAIN s : ~IsSpace(s[i])} IN
    IF inked = {} THEN <<>>
    ELSE SubSeq(s, CHOOSE i \in inked : \A j \in inked : i <= j,
                   CHOOSE i \in inked : \A j \in inked : j <= i)

\* extract_yaml_content, defined alike in both agent files
extract_yaml_content(response) ==
    IF Contains(response, FenceYaml)
    THEN Strip(Split(Split(response, FenceYaml)[2], Fence)[1])
    ELSE IF Contains(response, Fence)
    THEN LET parts == Split(response, Fence)
             named == {i \in DOMAIN parts :
                          /\ Contains(parts[i], Kw_name_colon)
                          /\ \/ Contains(parts[i], Kw_on_colon)
                             \/ Contains(parts[i], Kw_jobs_colon)}
         IN IF named = {} THEN Strip(response)
            ELSE Strip(parts[CHOOSE i \in named : \A j \in named : i <= j])
    ELSE Strip(response)

\* GitHubActionsImprover.extract_yaml_from_response
extract_yaml_from_response(response) ==
    IF Contains(response, FenceYaml)
    THEN Strip(Split(Split(response, FenceYaml)[2], Fence)[1])
    ELSE IF Contains(response, Fence)
    THEN Strip(Split(Split(response, Fence)[2], Fence)[1])
    ELSE Strip(response)

\* what a routine leaves behind: the file's content and the reported status
Outcome(content, status) == [content |-> content, status |-> status]

fix_workflow_with_failure_context(current_content, response) ==
    IF response # <<>>
    THEN LET fixed_content == extract_yaml_content(response) IN
         IF fixed_content # <<>> /\ Contains(fixed_content, Kw_name_colon)
         THEN Outcome(fixed_content, "success")
         ELSE Outcome(current_content, "failed")
    ELSE Outcome(current_content, "failed")

improve_workflow_concurrent(current_content, response) ==
    IF response # <<>>
    THEN Outcome(extract_yaml_content(response), "success")
    ELSE Outcome(current_content, "failed")

\* one iteration of the loop of improve_existing_workflows; the status is
\* the one it prints
improve_existing_workflows(current_content, response) ==
    IF response # <<>>
    THEN Outcome(extract_yaml_from_response(response), "success")
    ELSE Outcome(current_content, "failed")

Response_yaml ==
    <<"n","a","m","e",":"," ","C","I","\n","o","n",":"," ","p","u","s","h">>

Response_fenced_yaml ==
    <<BT,BT,BT,"y","a","m","l","\n","n","a","m","e",":"," ","N","e","w",
      "\n","o","n",":"," ","p","u","s","h","\n",BT,BT,BT>>

Response_fenced ==
    <<"F","i","x","e","d",":","\n",BT,BT,BT,"\n","n","a","m","e",":"," ",
      "C","I","\n","j","o","b","s",":"," ","{","}","\n",BT,BT,BT>>

Response_fenced_jobs_only ==
    <<BT,BT,BT,"y","a","m","l","\n","j","o","b","s",":"," ","{","}","\n",
      BT,BT,BT>>

Response_prose ==
    <<"S","o","r","r","y",","," ","n","o"," ","f","i","x",".">>

DelegateResponses ==
    { <<>>, Response_yaml, Response_fenced_yaml, Response_fenced,
      Response_fenced_jobs_only, Response_prose }

OriginalWorkflow ==
    <<"n","a","m","e",":"," ","O","l","d","\n","o","n",":"," ","p","u","s",
      "h">>

MaxFixes == 2

FixInit ==
    /\ FighterIdle
    /\ ToolsIdle
    /\ InvestigateIdle
    /\ ConfidenceIdle
    /\ QueryIdle
    /\ workflow_content = OriginalWorkflow
    /\ fix_log = <<>>

Fixed(routine, response, outcome) ==
    /\ workflow_content' = outcome.content
    /\ fix_log' = Append(fix_log, [routine |-> routine, response |-> response,
                                   before |-> workflow_content,
                                   after |-> outcome.content,
                                   status |-> outcome.status])

FixWorkflowWithFailureContext ==
    /\ Len(fix_log) < MaxFixes
    /\ \E response \in DelegateResponses :
           Fixed("fix_workflow_with_failure_context", response,
                 fix_workflow_with_failure_context(workflow_content, response))
    /\ UNCHANGED <<investigate_vars, confidence_vars, query_vars, tools_vars>>
    /\ UNCHANGED fighter_vars

ImproveWorkflowConcurrent ==
    /\ Len(fix_log) < MaxFixes
    /\ \E response \in DelegateResponses :
           Fixed("improve_workflow_concurrent", response,
                 improve_workflow_concurrent(workflow_content, response))
    /\ UNCHANGED <<investigate_vars, confidence_vars, query_vars, tools_vars>>
    /\ UNCHANGED fighter_vars

ImproveExistingWorkflows ==
    /\ Len(fix_log) < MaxFixes
    /\ \E response \in DelegateResponses :
           Fixed("improve_existing_workflows", response,
                 improve_existing_workflows(workflow_content, response))
    /\ UNCHANGED <<investigate_vars, confidence_vars, query_vars, tools_vars>>
    /\ UNCHANGED fighter_vars

FixNext ==
    \/ FixWorkflowWithFailureContext
    \/ ImproveWorkflowConcurrent
    \/ ImproveExistingWorkflows

FixSpec == FixInit /\ [][FixNext]_vars

(***************************************************************************)
(* The two-phase concurrent fixers: ConcurrentJobFixer                     *)
(* (concurrent-job-fixer.py) and EnhancedConcurrentJobFixer                *)
(* (enhanced-concurrent-fixer.py).  Each phase submits one task per job to *)
(* a ThreadPoolExecutor of max_workers threads; the calling thread takes   *)
(* the futures from as_completed.  A task is two steps of its worker, its  *)
(* first statements and its return, with the sleep between them.  The      *)
(* text of a progress message other than "COMPLETE" is kept without the    *)
(* job it names: print_progress_thread tells "COMPLETE" from the rest      *)
(* only.  Confidences are hundredths.                                      *)
(***************************************************************************)
MaxJobs == 2          \* longest job list handed to a fixer
MaxWorkers == 2       \* max_workers ranges over 1..MaxWorkers

CONCURRENT == "ConcurrentJobFixer"
ENHANCED == "EnhancedConcurrentJobFixer"

FailedJob(run_id, job_name, workflow_name, error_type, confidence, logs, suggested_fix) ==
    [run_id |-> run_id, job_name |-> job_name,
     workflow_name |-> workflow_name, error_type |-> error_type,
     confidence |-> confidence, logs |-> logs,
     suggested_fix |-> suggested_fix]

\* two of the jobs of _generate_demo_failed_jobs and a job as
\* get_failed_jobs builds it
Job_python ==
    FailedJob("12345", <<"t","e","s","t","-","p","y","t","h","o","n","-","3",".","1","1">>, "CI", "import_error", 92,
              <<"M","o","d","u","l","e","N","o","t","F","o","u","n","d","E","r","r","o","r",":"," ","r","e","q","u","e","s","t","s">>,
              "Add requests to requirements.txt")

Job_integration ==
    FailedJob("12347", <<"i","n","t","e","g","r","a","t","i","o","n","-","t","e","s","t","s">>, "CI", "database_timeout", 67,
              <<"c","o","n","n","e","c","t","i","o","n"," ","t","i","m","e","o","u","t">>, "Increase timeout to 60s")

Job_fetched == FailedJob("1", <<"l","i","n","t">>, "CI", "unknown", 0, <<>>, "")

WithAnalysis(job, error_type, confidence, suggested_fix) ==
    [job EXCEPT !.error_type = error_type, !.confidence = confidence,
                !.suggested_fix = suggested_fix]

analyze_job_failure(job) ==
    LET name == Lower(job.job_name)
        logs == Lower(job.logs)
    IN  IF Contains(name, <<"p","y","t","h","o","n">>)
        THEN IF Contains(logs, <<"i","m","p","o","r","t">>) \/ Contains(logs, <<"m","o","d","u","l","e">>)
             THEN WithAnalysis(job, "python_import_error", 92,
                      "Add missing Python dependencies to requirements.txt")
             ELSE IF Contains(logs, <<"s","y","n","t","a","x">>)
             THEN WithAnalysis(job, "python_syntax_error", 98,
                           "Fix Python syntax errors in source code")
             ELSE job
        ELSE IF Contains(logs, <<"n","p","m">>) \/ Contains(name, <<"n","o","d","e">>)
        THEN WithAnalysis(job, "npm_error", 95,
                      "Fix package.json issues and npm dependencies")
        ELSE IF Contains(name, <<"d","o","c","k","e","r">>)
        THEN WithAnalysis(job, "docker_error", 78,
                      "Fix Dockerfile configuration and build context")
        ELSE IF Contains(name, <<"d","e","p","l","o","y">>)
        THEN WithAnalysis(job, "deployment_error", 88,
                      "Fix deployment configuration and secrets")
        ELSE IF Contains(name, <<"s","e","c","u","r","i","t","y">>) \/ Contains(name, <<"c","o","d","e","q","l">>)
        THEN WithAnalysis(job, "security_scan_error", 96,
                      "Fix security scanning configuration")
        ELSE job

apply_job_fix(job) ==
    LET status == IF job.confidence >= 80 THEN "applied"
                  ELSE IF job.confidence >= 50 THEN "needs_review"
                  ELSE "manual_review"
    IN  [job |-> job, status |-> status, fix_applied |-> status = "applied",
         needs_review |-> status = "needs_review"]

\* dict.get(key, default) and {**job, **extra}
Get(d, key, default) == IF key \in DOMAIN d THEN d[key] ELSE default

Merge(d, extra) ==
    [k \in DOMAIN d \cup DOMAIN extra |->
        IF k \in DOMAIN extra THEN extra[k] ELSE d[k]]

\* two of the jobs of _generate_demo_jobs and a job as
\* get_authenticated_failed_jobs builds it
Dict_module ==
    [run_id |-> "12345678", job_name |-> "test (3.11, ubuntu-latest)",
     workflow_name |-> "CI", job_id |-> "job_1",
     error_pattern |-> <<"M","o","d","u","l","e","N","o","t","F","o","u","n","d","E","r","r","o","r",":"," ","N","o"," ","m","o","d","u","l","e"," ","n","a","m","e","d"," ","'","r","e","q","u","e","s","t","s","'">>,
     confidence |-> 95]

Dict_database ==
    [run_id |-> "12345680", job_name |-> "integration-tests",
     workflow_name |-> "CI", job_id |-> "job_3",
     error_pattern |-> <<"p","s","q","l",":"," ","F","A","T","A","L",":"," ","d","a","t","a","b","a","s","e"," ","\"","t","e","s","t","\""," ","d","o","e","s"," ","n","o","t"," ","e","x","i","s","t">>,
     confidence |-> 89]

Dict_fetched ==
    [run_id |-> "1", job_name |-> "lint", workflow_name |-> "CI",
     created_at |-> "2024-01-01T00:00:00Z", job_id |-> "7",
     logs_url |-> ""]

analyze_job_with_rate_limiting(job) ==
    LET error_pattern == Get(job, "error_pattern", <<>>)
        lowered == Lower(error_pattern)
        Fix(fix_type, suggested_fix, confidence) ==
            Merge(job, [fix_type |-> fix_type,
                        suggested_fix |-> suggested_fix,
                        confidence |-> confidence,
                        analysis_complete |-> TRUE])
    IN  IF Contains(error_pattern, <<"M","o","d","u","l","e","N","o","t","F","o","u","n","d","E","r","r","o","r">>)
           \/ Contains(lowered, <<"i","m","p","o","r","t">>)
        THEN Fix("python_import_fix",
                 "Add missing Python dependencies to requirements.txt", 95)
        ELSE IF Contains(error_pattern, <<"n","p","m"," ","E","R","R","!">>)
                \/ Contains(error_pattern, <<"p","a","c","k","a","g","e",".","j","s","o","n">>)
        THEN Fix("npm_dependency_fix",
                 "Fix package.json and npm dependency issues", 98)
        ELSE IF Contains(lowered, <<"d","a","t","a","b","a","s","e">>)
                \/ Contains(error_pattern, <<"p","s","q","l">>)
        THEN Fix("database_config_fix",
                 "Fix database configuration and connection", 89)
        ELSE IF Contains(lowered, <<"m","a","t","r","i","x">>)
        THEN Fix("workflow_matrix_fix", "Fix workflow matrix configuration",
                 96)
        ELSE IF Contains(lowered, <<"s","e","c","r","e","t">>)
        THEN Fix("secret_config_fix", "Fix secret configuration and access",
                 92)
        ELSE Fix("generic_fix", "Generic workflow fix needed", 60)

apply_fix_with_rate_limiting(job) ==
    LET confidence == Get(job, "confidence", 50)
        status == IF confidence >= 90 THEN "auto_applied"
                  ELSE IF confidence >= 70 THEN "needs_review"
                  ELSE "manual_review"
    IN  Merge(job, [fix_status |-> status,
                    fix_applied |-> status = "auto_applied"])

\* the phase-1 and the phase-2 task of a fixer
AnalysisTask(f, job) ==
    IF f = CONCURRENT THEN analyze_job_failure(job)
    ELSE analyze_job_with_rate_limiting(job)

FixTask(f, job) ==
    IF f = CONCURRENT THEN apply_job_fix(job)
    ELSE apply_fix_with_rate_limiting(job)

JobsOf(f) ==
    IF f = CONCURRENT THEN {Job_python, Job_fetched}
    ELSE {Dict_database, Dict_fetched}

RECURSIVE ListsOf(_, _)
ListsOf(S, n) ==
    IF n = 0 THEN {<<>>}
    ELSE LET shorter == ListsOf(S, n - 1)
         IN  shorter \cup {Append(l, x) : l \in {s \in shorter : Len(s) = n - 1},
                                          x \in S}

\* executor.submit: a future per job, in the order of the list
Future(job) == [state |-> "pending", arg |-> job, value |-> <<>>]

submit(list) == [i \in DOMAIN list |-> Future(list[i])]

\* a worker thread is free to run task i: the tasks before it in the work
\* queue are taken, and those taken leave a thread for it
CanStart(fs_, i) ==
    /\ fs_[i].state = "pending"
    /\ Cardinality({j \in DOMAIN fs_ : fs_[j].state = "running"})
         + Cardinality({j \in 1..(i - 1) : fs_[j].state = "pending"})
         < max_workers

\* concurrent.futures.as_completed: the finished futures not yet yielded
as_completed_again(fs_) ==
    {i \in DOMAIN fs_ : fs_[i].state \in {"done", "collected"}}

as_completed(fs_) == {i \in DOMAIN fs_ : fs_[i].state = "done"}

\* the for loop over as_completed has taken every future
exhausted_early(fs_) == \E i \in DOMAIN fs_ : fs_[i].state = "collected"

exhausted(fs_) == \A i \in DOMAIN fs_ : fs_[i].state = "collected"

\* self.progress_queue.put: only ConcurrentJobFixer has the queue
put(message) ==
    progress_queue' = IF fixer = CONCURRENT
                      THEN Append(progress_queue, message)
                      ELSE progress_queue

PoolInit ==
    /\ FighterIdle
    /\ InvestigateIdle
    /\ ConfidenceIdle
    /\ QueryIdle
    /\ FixIdle
    /\ AnalyzerIdle
    /\ fixer \in {CONCURRENT, ENHANCED}
    /\ jobs \in ListsOf(JobsOf(fixer), MaxJobs)
    /\ max_workers \in 1..MaxWorkers
    /\ phase = "called"
    /\ futures = <<>>
    /\ analyzed_jobs = <<>>
    /\ results = <<>>
    /\ progress_queue = <<>>
    /\ completed = 0

PoolRest ==
    UNCHANGED <<fighter_vars, investigate_vars, confidence_vars, query_vars,
                fix_vars, analyzer_vars>>

\* if not jobs: return []
ReturnNoJobs ==
    /\ phase = "called"
    /\ jobs = <<>>
    /\ phase' = "returned"
    /\ UNCHANGED <<fixer, jobs, max_workers, futures, analyzed_jobs, results,
                   progress_queue, completed>>
    /\ PoolRest

\* the progress thread is started and phase 1 submits a task per job
SubmitAnalyses ==
    /\ phase = "called"
    /\ jobs # <<>>
    /\ phase' = "analysis"
    /\ futures' = submit(jobs)
    /\ UNCHANGED <<fixer, jobs, max_workers, analyzed_jobs, results,
                   progress_queue, completed>>
    /\ PoolRest

StartAnalysis ==
    /\ phase = "analysis"
    /\ \E i \in DOMAIN futures :
           /\ CanStart(futures, i)
           /\ futures' = [futures EXCEPT ![i].state = "running"]
    /\ put("Analyzing")
    /\ UNCHANGED <<fixer, jobs, max_workers, phase, analyzed_jobs, results,
                   completed>>
    /\ PoolRest

\* analyze_job_failure changes the FailedJob it is given and returns it;
\* analyze_job_with_rate_limiting returns a new dict
FinishAnalysis ==
    /\ phase = "analysis"
    /\ \E i \in DOMAIN futures :
           /\ futures[i].state = "running"
           /\ LET value == AnalysisTask(fixer, futures[i].arg)
                  arg == IF fixer = CONCURRENT THEN value
                         ELSE futures[i].arg
              IN  /\ futures' = [futures EXCEPT ![i].state = "done",
                                                ![i].arg = arg,
                                                ![i].value = <<value>>]
                  /\ jobs' = IF fixer = CONCURRENT
                             THEN [jobs EXCEPT ![i] = value]
                             ELSE jobs
    /\ put("Analysis")
    /\ UNCHANGED <<fixer, max_workers, phase, analyzed_jobs, results,
                   completed>>
    /\ PoolRest

CollectAnalysis ==
    /\ phase = "analysis"
    /\ \E i \in as_completed(futures) :
           /\ analyzed_jobs' = Append(analyzed_jobs, futures[i].value[1])
           /\ futures' = [futures EXCEPT ![i].state = "collected"]
    /\ UNCHANGED <<fixer, jobs, max_workers, phase, results, progress_queue,
                   completed>>
    /\ PoolRest

\* phase 1's executor is left and phase 2 submits a task per analysed job
SubmitFixes ==
    /\ phase = "analysis"
    /\ exhausted(futures)
    /\ phase' = "fix"
    /\ futures' = submit(analyzed_jobs)
    /\ UNCHANGED <<fixer, jobs, max_workers, analyzed_jobs, results,
                   progress_queue, completed>>
    /\ PoolRest

StartFix ==
    /\ phase = "fix"
    /\ \E i \in DOMAIN futures :
           /\ CanStart(futures, i)
           /\ futures' = [futures EXCEPT ![i].state = "running"]
    /\ put("Applying")
    /\ UNCHANGED <<fixer, jobs, max_workers, phase, analyzed_jobs, results,
                   completed>>
    /\ PoolRest

FinishFix ==
    /\ phase = "fix"
    /\ \E i \in DOMAIN futures :
           /\ futures[i].state = "running"
           /\ futures' = [futures EXCEPT
                  ![i].state = "done",
                  ![i].value = <<FixTask(fixer, futures[i].arg)>>]
    /\ put("Status")
    /\ UNCHANGED <<fixer, jobs, max_workers, phase, analyzed_jobs, results,
                   completed>>
    /\ PoolRest

CollectFix ==
    /\ phase = "fix"
    /\ \E i \in as_completed(futures) :
           /\ results' = Append(results, futures[i].value[1])
           /\ futures' = [futures EXCEPT ![i].state = "collected"]
    /\ put("COMPLETE")
    /\ UNCHANGED <<fixer, jobs, max_workers, phase, analyzed_jobs, completed>>
    /\ PoolRest

ReturnResults ==
    /\ phase = "fix"
    /\ exhausted(futures)
    /\ phase' = "returned"
    /\ UNCHANGED <<fixer, jobs, max_workers, futures, analyzed_jobs, results,
                   progress_queue, completed>>
    /\ PoolRest

\* print_progress_thread: one message taken from the queue
PrintProgress ==
    /\ fixer = CONCURRENT
    /\ phase \in {"analysis", "fix", "returned"}
    /\ completed < Len(jobs)
    /\ progress_queue # <<>>
    /\ progress_queue' = Tail(progress_queue)
    /\ completed' = IF Head(progress_queue) = "COMPLETE" THEN completed + 1
                    ELSE completed
    /\ UNCHANGED <<fixer, jobs, max_workers, phase, futures, analyzed_jobs,
                   results>>
    /\ PoolRest

PoolNext ==
    \/ ReturnNoJobs
    \/ SubmitAnalyses
    \/ StartAnalysis
    \/ FinishAnalysis
    \/ CollectAnalysis
    \/ SubmitFixes
    \/ StartFix
    \/ FinishFix
    \/ CollectFix
    \/ ReturnResults
    \/ PrintProgress

PoolSpec == PoolInit /\ [][PoolNext]_vars

(***************************************************************************)
(* EnhancedConcurrentJobFixer.get_authenticated_failed_jobs: whether the   *)
(* API quota allows the fetch, the outcome of `gh run list` and the        *)
(* outcome of `gh run view <id> --json jobs` for the runs listed.          *)
(***************************************************************************)
Dict_npm ==
    [run_id |-> "12345679", job_name |-> "build-frontend",
     workflow_name |-> "CI", job_id |-> "job_2",
     error_pattern |-> <<"n","p","m"," ","E","R","R","!"," ","E","N","O","E","N","T",":"," ","n","o"," ","s","u","c","h"," ","f","i","l","e"," ","o","r"," ","d","i","r","e","c","t","o","r","y",","," ","o","p","e","n"," ","'","p","a","c","k","a","g","e",".","j","s","o","n","'">>,
     confidence |-> 98]

Dict_codeql ==
    [run_id |-> "12345681", job_name |-> "security-codeql",
     workflow_name |-> "Security", job_id |-> "job_4",
     error_pattern |-> <<"E","r","r","o","r",":"," ","m","a","t","r","i","x",".","l","a","n","g","u","a","g","e"," ","i","s"," ","n","o","t"," ","d","e","f","i","n","e","d">>,
     confidence |-> 96]

Dict_deploy ==
    [run_id |-> "12345682", job_name |-> "deploy-staging",
     workflow_name |-> "Deploy", job_id |-> "job_5",
     error_pattern |-> <<"E","r","r","o","r",":"," ","D","E","P","L","O","Y","_","K","E","Y"," ","s","e","c","r","e","t"," ","n","o","t"," ","f","o","u","n","d">>,
     confidence |-> 92]

_generate_demo_jobs ==
    <<Dict_module, Dict_npm, Dict_database, Dict_codeql, Dict_deploy>>

FailedRun(databaseId, workflowName, createdAt) ==
    [databaseId |-> databaseId, workflowName |-> workflowName,
     createdAt |-> createdAt]

FailedRunOutcomes ==
    FailedOutcomes
    \cup { Process("none", 0, FALSE, <<>>) }
    \cup { Process("none", 0, TRUE, r) :
             r \in { <<>>, <<FailedRun("1", "CI", "2024-01-01T00:00:00Z")>> } }

ViewedJob(name, conclusion, databaseId, url) ==
    [name |-> name, conclusion |-> conclusion, databaseId |-> databaseId,
     url |-> url]

ViewedJobOutcomes ==
    FailedOutcomes
    \cup { Process("none", 0, FALSE, <<>>) }
    \cup { Process("none", 0, TRUE, j) :
             j \in { <<>>,
                     <<ViewedJob("lint", "failure", "7", ""),
                       ViewedJob("build", "success", "8", "")>> } }

\* the failed jobs of one listed run, or the exception its view raises
failed_jobs_of(run, view) ==
    LET exc == IF run_unchecked(view) # "none" THEN run_unchecked(view)
               ELSE IF view.returncode = 0 THEN json_loads(view)
               ELSE "none"
        failed == IF exc = "none" /\ view.returncode = 0
                  THEN SelectSeq(view.stdout,
                                 LAMBDA job : job.conclusion = "failure")
                  ELSE <<>>
    IN  [raised |-> exc,
         value |-> [i \in DOMAIN failed |->
                       [run_id |-> run.databaseId,
                        job_name |-> failed[i].name,
                        workflow_name |-> run.workflowName,
                        created_at |-> run.createdAt,
                        job_id |-> failed[i].databaseId,
                        logs_url |-> failed[i].url]]]

get_authenticated_failed_jobs(quota, list, view) ==
    IF ~quota THEN Returned(<<>>)
    ELSE IF run_unchecked(list) # "none" \/ list.returncode # 0
    THEN Returned(_generate_demo_jobs)
    ELSE IF json_loads(list) # "none" THEN Returned(_generate_demo_jobs)
    ELSE LET runs_data == list.stdout
             per_run == [i \in DOMAIN runs_data |->
                            failed_jobs_of(runs_data[i], view)]
             failed_jobs == Concat([i \in DOMAIN per_run |-> per_run[i].value])
         IN  IF \E i \in DOMAIN per_run : per_run[i].raised # "none"
             THEN Returned(_generate_demo_jobs)
             ELSE Returned(SubSeq(failed_jobs, 1,
                                  IF Len(failed_jobs) < 30
                                  THEN Len(failed_jobs) ELSE 30))

GetAuthenticatedFailedJobs ==
    /\ CanQuery
    /\ \E quota \in BOOLEAN, list \in FailedRunOutcomes,
          view \in ViewedJobOutcomes :
           queries' =
               Logged("EnhancedConcurrentJobFixer.get_authenticated_failed_jobs",
                      [quota |-> quota, list |-> list, view |-> view],
                      get_authenticated_failed_jobs(quota, list, view))
    /\ UNCHANGED <<investigate_vars, confidence_vars, fix_vars, tools_vars>>
    /\ UNCHANGED fighter_vars

FetchNext == GetAuthenticatedFailedJobs

FetchSpec == QueryInit /\ [][FetchNext]_vars

(***************************************************************************)
(* GitHubActionsFailureAnalyzer.analyze_failure_patterns                   *)
(* (failure-analyzer.py).  The signatures are regular expressions searched *)
(* with re.IGNORECASE: a signature is modelled as its alternatives, each a *)
(* sequence of items, matched against the lower-cased logs with Python's   *)
(* leftmost, greedy, backtracking discipline.  re.MULTILINE changes only   *)
(* the anchors, and no signature has one.                                  *)
(***************************************************************************)
Lit(text) == [kind |-> "lit", text |-> text]   \* literal characters
DotStar == [kind |-> "any", text |-> <<>>]         \* .*
DotPlus == [kind |-> "some", text |-> <<>>]       \* .+
WordPlus == [kind |-> "word", text |-> <<>>]       \* \w+
DigitPlus == [kind |-> "digits", text |-> <<>>]   \* \d+

DigitChars == {"0","1","2","3","4","5","6","7","8","9"}

\* \w on lower-cased text
WordChars == ToSet(LowerChars) \cup DigitChars \cup {"_"}

\* last position of the run of characters of class that starts at j
\* (j - 1 when there is none)
RunEnd(s, j, class) ==
    LET stops == {k \in j..Len(s) : s[k] \notin class} IN
    IF stops = {} THEN Len(s)
    ELSE (CHOOSE k \in stops : \A l \in stops : k <= l) - 1

\* the positions at which one item can end (exclusive) when it starts at i
ItemEnds(it, s, i) ==
    CASE it.kind = "lit" ->
            IF LitAt(s, i, it.text) THEN {i + Len(it.text)} ELSE {}
      [] it.kind = "any" -> i..(LineEnd(s, i) + 1)
      [] it.kind = "some" -> (i + 1)..(LineEnd(s, i) + 1)
      [] it.kind = "word" -> (i + 1)..(RunEnd(s, i, WordChars) + 1)
      [] it.kind = "digits" -> (i + 1)..(RunEnd(s, i, DigitChars) + 1)

\* the match of the items at position i: <<>> when there is none, else the
\* start of every item followed by the end of the match; a repetition takes
\* the longest run that lets the rest of the items match
RECURSIVE MatchAt(_, _, _)
MatchAt(items, s, i) ==
    IF items = <<>> THEN <<i>>
    ELSE
        LET good == {j \in ItemEnds(Head(items), s, i) :
                        MatchAt(Tail(items), s, j) # <<>>}
        IN  IF good = {} THEN <<>>
            ELSE <<i>> \o MatchAt(Tail(items), s,
                              CHOOSE j \in good : \A l \in good : l <= j)

\* the alternatives of the pattern that match at position i
AltsAt(pattern, s, i) ==
    {a \in DOMAIN pattern.alts : MatchAt(pattern.alts[a], s, i) # <<>>}

\* the positions at which the pattern matches
MatchStarts(pattern, s) ==
    {i \in 1..Len(s) : AltsAt(pattern, s, i) # {}}

\* re.findall(pattern, logs, re.MULTILINE | re.IGNORECASE) is not empty
findall_nonempty(pattern, logs) == MatchStarts(pattern, Lower(logs)) # {}

\* matches[0]: the first match is the leftmost one, by the first alternative
\* that matches there; findall gives the whole match for a pattern without
\* groups, the group's text for one group, the tuple of the groups' texts
\* for several
findall_first(pattern, logs) ==
    LET s == Lower(logs)
        starts == MatchStarts(pattern, s)
        i == CHOOSE k \in starts : \A l \in starts : k <= l
        alts == AltsAt(pattern, s, i)
        a == CHOOSE k \in alts : \A l \in alts : k <= l
        cuts == MatchAt(pattern.alts[a], s, i)
        group(g) == SubSeq(logs, cuts[g[1]], cuts[g[2] + 1] - 1)
    IN  IF pattern.groups = <<>>
        THEN SubSeq(logs, cuts[1], cuts[Len(cuts)] - 1)
        ELSE IF Len(pattern.groups) = 1 THEN group(pattern.groups[1])
        ELSE [g \in DOMAIN pattern.groups |-> group(pattern.groups[g])]

\* r"npm ERR!.*ENOENT.*package\.json"
Sig_missing_package_json ==
    [alts |-> << <<Lit(<<"n","p","m"," ","e","r","r","!">>), DotStar, Lit(<<"e","n","o","e","n","t">>), DotStar, Lit(<<"p","a","c","k","a","g","e",".","j","s","o","n">>)>> >>,
     groups |-> <<>>]

\* r"npm ERR!.*404.*not found"
Sig_npm_package_not_found ==
    [alts |-> << <<Lit(<<"n","p","m"," ","e","r","r","!">>), DotStar, Lit(<<"4","0","4">>), DotStar, Lit(<<"n","o","t"," ","f","o","u","n","d">>)>> >>,
     groups |-> <<>>]

\* r"npm ERR!.*peer dep.*ERESOLVE"
Sig_npm_peer_dependency ==
    [alts |-> << <<Lit(<<"n","p","m"," ","e","r","r","!">>), DotStar, Lit(<<"p","e","e","r"," ","d","e","p">>), DotStar, Lit(<<"e","r","e","s","o","l","v","e">>)>> >>,
     groups |-> <<>>]

\* r"ERROR:.*No module named '(\w+)'"
Sig_python_missing_module ==
    [alts |-> << <<Lit(<<"e","r","r","o","r",":">>), DotStar, Lit(<<"n","o"," ","m","o","d","u","l","e"," ","n","a","m","e","d",
          " ","'">>), WordPlus, Lit(<<"'">>)>> >>,
     groups |-> <<<<4, 4>>>>]

\* r"SyntaxError:|IndentationError:"
Sig_python_syntax_error ==
    [alts |-> << <<Lit(<<"s","y","n","t","a","x","e","r","r","o","r",":">>)>>,
      <<Lit(<<"i","n","d","e","n","t","a","t","i","o","n","e","r","r","o",
          "r",":">>)>> >>,
     groups |-> <<>>]

\* r"ImportError:.*cannot import name"
Sig_python_import_error ==
    [alts |-> << <<Lit(<<"i","m","p","o","r","t","e","r","r","o","r",":">>), DotStar, Lit(<<"c","a","n","n","o","t"," ","i","m","p","o","r","t"," ","n",
          "a","m","e">>)>> >>,
     groups |-> <<>>]

\* r"FAILED.*test_.*\.py::\w+"
Sig_test_failure ==
    [alts |-> << <<Lit(<<"f","a","i","l","e","d">>), DotStar, Lit(<<"t","e","s","t","_">>), DotStar, Lit(<<".","p","y",":",":">>), WordPlus>> >>,
     groups |-> <<>>]

\* r"error: (.+)\n.*--> (.+):(\d+):(\d+)"
Sig_rust_compile_error ==
    [alts |-> << <<Lit(<<"e","r","r","o","r",":"," ">>), DotPlus, Lit(<<"\n">>), DotStar, Lit(<<"-","-",">"," ">>), DotPlus, Lit(<<":">>), DigitPlus, Lit(<<":">>), DigitPlus>> >>,
     groups |-> <<<<2, 2>>, <<6, 6>>, <<8, 8>>, <<10, 10>>>>]

\* r"go: (.+@.+): (.+)"
Sig_go_module_error ==
    [alts |-> << <<Lit(<<"g","o",":"," ">>), DotPlus, Lit(<<"@">>), DotPlus, Lit(<<":"," ">>), DotPlus>> >>,
     groups |-> <<<<2, 4>>, <<6, 6>>>>]

\* r"docker: Error response from daemon:"
Sig_docker_error ==
    [alts |-> << <<Lit(<<"d","o","c","k","e","r",":"," ","e","r","r","o","r"," ","r",
          "e","s","p","o","n","s","e"," ","f","r","o","m"," ","d","a","e","m",
          "o","n",":">>)>> >>,
     groups |-> <<>>]

\* r"ERROR: The request is invalid: (.+)"
Sig_github_api_error ==
    [alts |-> << <<Lit(<<"e","r","r","o","r",":"," ","t","h","e"," ","r","e","q","u",
          "e","s","t"," ","i","s"," ","i","n","v","a","l","i","d",":"," ">>), DotPlus>> >>,
     groups |-> <<<<2, 2>>>>]

\* r"Warning: Failed to restore cache"
Sig_cache_failure ==
    [alts |-> << <<Lit(<<"w","a","r","n","i","n","g",":"," ","f","a","i","l","e","d",
          " ","t","o"," ","r","e","s","t","o","r","e"," ","c","a","c","h",
          "e">>)>> >>,
     groups |-> <<>>]

analyzer_failure_patterns ==
    <<
      [pattern |-> Sig_missing_package_json,
       error_type |-> "missing_package_json",
       message |-> "package.json not found",
       fixes |->
           <<"Add package.json file to repository root",
             "Update workflow to run from correct directory with package.json">>,
       workflow_changes |->
           <<"Add 'working-directory' parameter to npm steps",
             "Add step to verify package.json exists before npm install">>,
       confidence |-> 90],
      [pattern |-> Sig_npm_package_not_found,
       error_type |-> "npm_package_not_found",
       message |-> "npm package not found",
       fixes |->
           <<"Check package names in package.json for typos",
             "Verify package exists on npm registry",
             "Update to correct package version">>,
       confidence |-> 80],
      [pattern |-> Sig_npm_peer_dependency,
       error_type |-> "npm_peer_dependency",
       message |-> "npm peer dependency conflict",
       fixes |->
           <<"Use 'npm install --legacy-peer-deps' in workflow",
             "Update package.json to resolve peer dependency conflicts",
             "Use npm ci with --force flag">>,
       workflow_changes |->
           <<"Replace 'npm ci' with 'npm ci --legacy-peer-deps'",
             "Add npm config set legacy-peer-deps true">>,
       confidence |-> 90],
      [pattern |-> Sig_python_missing_module,
       error_type |-> "python_missing_module",
       message |-> "Python module not found",
       fixes |->
           <<"Add missing module to requirements.txt",
             "Install module in workflow before tests",
             "Check if module name is correct">>,
       workflow_changes |->
           <<"Add missing dependencies to requirements.txt installation",
             "Add explicit pip install step for missing modules">>,
       confidence |-> 90],
      [pattern |-> Sig_python_syntax_error,
       error_type |-> "python_syntax_error",
       message |-> "Python syntax or indentation error",
       fixes |->
           <<"Fix syntax errors in Python code",
             "Check indentation consistency",
             "Run local linting before committing">>,
       code_changes |->
           <<"Fix syntax errors identified in logs",
             "Run flake8 or black formatter">>,
       confidence |-> 95],
      [pattern |-> Sig_python_import_error,
       error_type |-> "python_import_error",
       message |-> "Python import error",
       fixes |->
           <<"Check import paths and module structure",
             "Verify __init__.py files exist",
             "Update imports to correct module paths">>,
       confidence |-> 80],
      [pattern |-> Sig_test_failure,
       error_type |-> "test_failure",
       message |-> "Unit tests failing",
       fixes |->
           <<"Fix failing test assertions",
             "Update test data or mocks",
             "Check if code changes broke expected behavior">>,
       code_changes |->
           <<"Analyze failing test output and fix underlying issues",
             "Update test expectations if behavior change is intentional">>,
       confidence |-> 70],
      [pattern |-> Sig_rust_compile_error,
       error_type |-> "rust_compile_error",
       message |-> "Rust compilation error",
       fixes |->
           <<"Fix Rust compilation errors in source code",
             "Update Rust dependencies if needed",
             "Check Rust toolchain version compatibility">>,
       confidence |-> 90],
      [pattern |-> Sig_go_module_error,
       error_type |-> "go_module_error",
       message |-> "Go module error",
       fixes |->
           <<"Run 'go mod tidy' to clean up dependencies",
             "Update go.mod with correct module versions",
             "Check if module exists and is accessible">>,
       workflow_changes |->
           <<"Add 'go mod download' step before build",
             "Add 'go mod tidy' step to verify dependencies">>,
       confidence |-> 80],
      [pattern |-> Sig_docker_error,
       error_type |-> "docker_error",
       message |-> "Docker container error",
       fixes |->
           <<"Check Docker image availability",
             "Verify Dockerfile syntax",
             "Check container resource requirements">>,
       confidence |-> 70],
      [pattern |-> Sig_github_api_error,
       error_type |-> "github_api_error",
       message |-> "GitHub API or permissions error",
       fixes |->
           <<"Check GITHUB_TOKEN permissions",
             "Verify repository access settings",
             "Update workflow permissions section">>,
       workflow_changes |->
           <<"Add appropriate permissions to workflow",
             "Check if GITHUB_TOKEN needs additional scopes">>,
       confidence |-> 80],
      [pattern |-> Sig_cache_failure,
       error_type |-> "cache_failure",
       message |-> "Cache restore failed",
       fixes |->
           <<"Update cache key patterns",
             "Clear old cache if corrupted",
             "Add fallback cache keys">>,
       workflow_changes |->
           <<"Update cache action with better key patterns",
             "Add restore-keys for cache fallbacks">>,
       confidence |-> 60]
    >>

analyzer_analyze_failure_patterns_last(logs) ==
    LET hits == {k \in DOMAIN analyzer_failure_patterns :
                    findall_nonempty(analyzer_failure_patterns[k].pattern, logs)}
    IN  IF hits = {}
        THEN [error_type |-> "unknown", error_message |-> "",
              suggested_fixes |-> <<>>, confidence |-> 0,
              workflow_changes |-> <<>>, code_changes |-> <<>>]
        ELSE
            LET info == analyzer_failure_patterns[
                            CHOOSE k \in hits : \A l \in hits : l <= k]
            IN  [error_type |-> info.error_type,
                 error_message |-> info.message,
                 suggested_fixes |-> info.fixes,
                 confidence |-> info.confidence,
                 workflow_changes |-> Get(info, "workflow_changes", <<>>),
                 code_changes |-> Get(info, "code_changes", <<>>),
                 error_details |-> findall_first(info.pattern, logs)]

\* analyze_failure_patterns(logs): the loop breaks at the first signature of
\* the table whose pattern is found.  Confidences are in hundredths.
analyzer_analyze_failure_patterns(logs) ==
    LET hits == {k \in DOMAIN analyzer_failure_patterns :
                    findall_nonempty(analyzer_failure_patterns[k].pattern, logs)}
    IN  IF hits = {}
        THEN [error_type |-> "unknown", error_message |-> "",
              suggested_fixes |-> <<>>, confidence |-> 0,
              workflow_changes |-> <<>>, code_changes |-> <<>>]
        ELSE
            LET info == analyzer_failure_patterns[
                            CHOOSE k \in hits : \A l \in hits : k <= l]
            IN  [error_type |-> info.error_type,
                 error_message |-> info.message,
                 suggested_fixes |-> info.fixes,
                 confidence |-> info.confidence,
                 workflow_changes |-> Get(info, "workflow_changes", <<>>),
                 code_changes |-> Get(info, "code_changes", <<>>),
                 error_details |-> findall_first(info.pattern, logs)]

\* log lines: one for every signature, the first of them matched by the
\* second signature as well, and the two lines of a Rust compiler error,
\* neither of which is matched alone
AnalyzerLogLines ==
    { <<"n","p","m"," ","E","R","R","!"," ","c","o","d","e"," ","E","N","O","E","N","T"," ","4","0","4"," ","p","a","c","k","a","g","e",".","j","s","o","n"," ","n","o","t"," ","f","o","u","n","d">>,
      <<"n","p","m"," ","E","R","R","!"," ","4","0","4"," ","n","o","t"," ","f","o","u","n","d">>,
      <<"N","P","M"," ","e","r","r","!"," ","p","e","e","r"," ","d","e","p"," ","c","o","n","f","l","i","c","t"," ","e","r","e","s","o","l","v","e">>,
      <<"E","R","R","O","R",":"," ","N","o"," ","m","o","d","u","l","e"," ","n","a","m","e","d"," ","'","r","e","q","u","e","s","t","s","'">>,
      <<"I","n","d","e","n","t","a","t","i","o","n","E","r","r","o","r",":"," ","u","n","e","x","p","e","c","t","e","d"," ","i","n","d","e","n","t">>,
      <<"I","m","p","o","r","t","E","r","r","o","r",":"," ","c","a","n","n","o","t"," ","i","m","p","o","r","t"," ","n","a","m","e"," ","x">>,
      <<"F","A","I","L","E","D"," ","t","e","s","t","s","/","t","e","s","t","_","a","p","i",".","p","y",":",":","t","e","s","t","_","g","e","t">>,
      <<"e","r","r","o","r",":"," ","m","i","s","m","a","t","c","h","e","d"," ","t","y","p","e","s">>,
      <<" "," ","-","-",">"," ","s","r","c","/","m","a","i","n",".","r","s",":","1","0",":","5">>,
      <<"g","o",":"," ","e","x","a","m","p","l","e",".","c","o","m","/","m","@","v","1",":"," ","n","o","t"," ","f","o","u","n","d">>,
      <<"d","o","c","k","e","r",":"," ","E","r","r","o","r"," ","r","e","s","p","o","n","s","e"," ","f","r","o","m"," ","d","a","e","m","o","n",":"," ","x">>,
      <<"E","R","R","O","R",":"," ","T","h","e"," ","r","e","q","u","e","s","t"," ","i","s"," ","i","n","v","a","l","i","d",":"," ","b","a","d">>,
      <<"W","a","r","n","i","n","g",":"," ","F","a","i","l","e","d"," ","t","o"," ","r","e","s","t","o","r","e"," ","c","a","c","h","e">> }

AnalyzerLogs ==
    { JoinLines(ls) :
        ls \in UNION { [1..n -> AnalyzerLogLines] : n \in 0..MaxLogLines } }

AnalyzerInit ==
    /\ FighterIdle
    /\ InvestigateIdle
    /\ ConfidenceIdle
    /\ QueryIdle
    /\ FixIdle
    /\ PoolIdle
    /\ analyzer_logs \in AnalyzerLogs
    /\ failure_analysis = <<>>

AnalyzeFailurePatterns ==
    /\ failure_analysis' = <<analyzer_analyze_failure_patterns(analyzer_logs)>>
    /\ UNCHANGED <<fighter_vars, investigate_vars, confidence_vars, query_vars,
                   fix_vars, pool_vars, analyzer_logs>>

AnalyzerNext == AnalyzeFailurePatterns

AnalyzerSpec == AnalyzerInit /\ [][AnalyzerNext]_vars

(***************************************************************************)
(* Properties.                                                             *)
(***************************************************************************)
Last(s) == s[Len(s)]

Numbered(s) == [i \in DOMAIN s |-> <<i, s[i]>>]

RoundAppended == Len(battle_history') = Len(battle_history) + 1

\* C1: when the initial assessment reports no failing workflow,
\* fight_until_victory returns VICTORY without a round: battle_history stays
\* empty, no fix is applied and no report file is written, then and when
\* main exits.
Thm_C1 ==
    [][ /\ (pc = "initial" /\ raised' = "none" /\ assessment'.failures = <<>>)
            => /\ result' = VICTORY
               /\ pc' = "returned"
               /\ battle_history' = <<>>
               /\ total_fixes_applied' = <<>>
               /\ report' = <<>>
        /\ (result = VICTORY /\ battle_history = <<>>)
            => /\ battle_history' = <<>>
               /\ total_fixes_applied' = <<>>
               /\ report' = <<>> ]_vars

Wit_C1 ==
    /\ pc = "exited"
    /\ result = VICTORY
    /\ battle_history = <<>>
    /\ assessment.workflows # <<>>

\* C2: a round that ends with a success rate of 100% makes
\* fight_until_victory return VICTORY in the same step, with the rounds
\* executed so far in battle_history, without a call of detect_battle_loops
\* and without alternative fixes; no round is executed after a VICTORY.
Thm_C2 ==
    [][ /\ (RoundAppended /\ Last(battle_history').success_rate_after = 10000)
            => /\ result' = VICTORY
               /\ pc' = "returned"
               /\ battle_history' = Append(battle_history, Last(battle_history'))
               /\ Len(battle_history') = round_num
               /\ loop_log' = loop_log
               /\ total_fixes_applied' = total_fixes_applied
        /\ result = VICTORY
            => UNCHANGED <<battle_history, total_fixes_applied, loop_log,
                           result>> ]_vars

Wit_C2 ==
    /\ result = VICTORY
    /\ Len(battle_history) = 2
    /\ battle_history[1].success_rate_before = 0
    /\ battle_history[1].success_rate_after = 5000
    /\ battle_history[2].success_rate_before = 5000
    /\ battle_history[2].success_rate_after = 10000

Thm_C4 ==
    [][ /\ (result' = STRATEGIC_RETREAT /\ result # STRATEGIC_RETREAT)
            => (report = <<>> /\ Len(report') = 1 /\ exit_code' = -1)
        /\ (result = STRATEGIC_RETREAT) => (report' = report /\ Len(report) = 1)
      ]_vars

Wit_C4 ==
    /\ pc = "returned"
    /\ result = STRATEGIC_RETREAT
    /\ battle_history # <<>>
    /\ Len(report) = 1

\* C5: the report written on retreat states len(battle_history) rounds, lists
\* the fixes of all rounds (with the alternative fixes of detected loops),
\* numbered in the order applied, names as remaining failures the
\* failures_after of the last round, and ends with the five fixed strategies.
AlternativesAfter(n) ==
    IF \E k \in DOMAIN loop_log : loop_log[k] = <<n, TRUE>>
    THEN alternative_fixes ELSE <<>>

FixesInOrder ==
    Concat([n \in DOMAIN battle_history |->
               battle_history[n].fixes_applied \o AlternativesAfter(n)])

Thm_C5 ==
    result = STRATEGIC_RETREAT
        => /\ Len(report) = 1
           /\ report[1].rounds_fought = Len(battle_history)
           /\ report[1].fixes_attempted = Numbered(FixesInOrder)
           /\ report[1].fixes_attempted = Numbered(total_fixes_applied)
           /\ [i \in DOMAIN report[1].stubborn_issues |->
                  report[1].stubborn_issues[i][1]]
                = (IF battle_history = <<>> THEN <<>>
                   ELSE Last(battle_history).failures_after)
           /\ Len(report[1].strategies) = 5
           /\ report[1].strategies = Numbered(RecommendedStrategies)

Wit_C5 ==
    /\ result = STRATEGIC_RETREAT
    /\ Len(battle_history) >= 3
    /\ \E k \in DOMAIN loop_log : loop_log[k][2]
    /\ Last(battle_history).failures_after
           # Last(battle_history).failures_before
    /\ Len(report[1].fixes_attempted) > 3

\* C6: detect_battle_loops answers true exactly when the history has at least
\* 3 rounds and the failures_after of the 3 most recent ones are equal as
\* sets of names, whatever their order, duplicates, fixes and rates.
SameNames(a, b) ==
    /\ \A i \in DOMAIN a : \E j \in DOMAIN b : a[i] = b[j]
    /\ \A j \in DOMAIN b : \E i \in DOMAIN a : a[i] = b[j]

LoopDetected ==
    /\ Len(loop_log') = Len(loop_log) + 1
    /\ Last(loop_log')[2]

Thm_C7 ==
    [][ /\ LoopDetected
            => /\ total_fixes_applied' = total_fixes_applied \o alternative_fixes
               /\ Len(alternative_fixes) = 3
               /\ result' = "none"
               /\ exit_code' = -1
               /\ pc' = "loop_head"
               /\ round_num' = round_num + 1
        /\ (pc = "loop_head" /\ round_num <= max_rounds /\ raised' = "none")
            => (result' # STRATEGIC_RETREAT /\ pc' \in {"wait", "returned"})
        /\ (result' = STRATEGIC_RETREAT /\ result # STRATEGIC_RETREAT)
            => Len(battle_history) = max_rounds
        /\ (result' = VICTORY /\ result # VICTORY /\ battle_history' # <<>>)
            => Last(battle_history').success_rate_after = 10000 ]_vars

Wit_C7 ==
    \E k \in DOMAIN loop_log :
        /\ loop_log[k][2]
        /\ Len(battle_history) > loop_log[k][1]
        /\ Last(battle_history).fixes_applied # <<>>

\* C8: fight_until_victory ends, after at most max_rounds rounds, and what
\* it returns is VICTORY or STRATEGIC_RETREAT; battle_history never holds
\* more than max_rounds rounds.
Thm_C8 ==
    /\ <>(pc \in {"returned", "exited"})
    /\ [](Len(battle_history) <= max_rounds)
    /\ [](pc = "returned" => result \in {VICTORY, STRATEGIC_RETREAT})
    /\ [](result # FIGHTING)

Wit_C8 ==
    /\ pc = "returned"
    /\ max_rounds = MaxRounds
    /\ Len(battle_history) = max_rounds
    /\ result = VICTORY

\* C9: fight_until_victory returns VICTORY only when every workflow of the
\* assessment that triggers it has status success.
Cex_C9 ==
    result = VICTORY
        => \A i \in DOMAIN assessment.workflows :
               assessment.workflows[i].status = "success"

\* C10: when an unexpected exception is raised while a round executes, the
\* battle report is written before the process exits.
Cex_C10 ==
    (pc = "exited" /\ raised = "Exception"
        /\ raised_at \in {"loop_head", "wait", "post"})
        => Len(report) = 1

\* C11: an interrupt that arrives while fight_until_victory runs is caught
\* by main, which writes the battle report from the rounds recorded and the
\* fixes applied up to that point and then exits with status 130; a process
\* that exited with 130 has left exactly that report behind.
Thm_C11 ==
    [][raised' = "KeyboardInterrupt" /\ raised = "none"
          => /\ InFight
             /\ raised_at' = pc
             /\ battle_history' = battle_history
             /\ total_fixes_applied' = total_fixes_applied
             /\ Len(report') = 1
             /\ report'[1].rounds_fought = Len(battle_history)
             /\ report'[1].fixes_attempted = Numbered(total_fixes_applied)
             /\ report'[1] = write_battle_report(battle_history,
                                                 total_fixes_applied)
             /\ exit_code' = 130
             /\ pc' = "exited"]_vars

Wit_C11 ==
    /\ pc = "exited"
    /\ exit_code = 130
    /\ raised = "KeyboardInterrupt"
    /\ raised_at = "wait"
    /\ Len(battle_history) >= 1
    /\ total_fixes_applied # <<>>
    /\ Len(report) = 1
    /\ report[1].rounds_fought = Len(battle_history)

\* C12: the exit status of the process is 0 on VICTORY, 1 on
\* STRATEGIC_RETREAT, 130 on an interrupt and 2 on every other end, an
\* unexpected exception included; only a strategic retreat produces 1.
Cex_C12 ==
    pc = "exited"
        => /\ raised = "none" /\ result = VICTORY => exit_code = 0
           /\ raised = "none" /\ result = STRATEGIC_RETREAT => exit_code = 1
           /\ raised = "KeyboardInterrupt" => exit_code = 130
           /\ raised = "Exception" => exit_code = 2
           /\ exit_code = 1 => result = STRATEGIC_RETREAT

\* C13: wait_for_battle_results always terminates.  A poll that reports no
\* running, pending or queued workflow ends the wait at once; a poll that
\* reports one either sleeps and polls again or, once the elapsed time is
\* over the ceiling, ends the wait as well; the number of sleeps is bounded,
\* the wait is always left, and the round is then completed from whatever
\* the platform reports at the reassessment.
StillRunning(ws) ==
    \E i \in DOMAIN ws : ws[i].status \in {"running", "pending", "queued"}

PollStep ==
    pc = "wait" /\ raised' = raised
        => /\ pc' \in {"wait", "post"}
           /\ ~StillRunning(wait_workflows')
                  => pc' = "post" /\ gave_up' = FALSE
           /\ pc' = "post" /\ ~gave_up' => ~StillRunning(wait_workflows')
           /\ gave_up' => pc' = "post" /\ StillRunning(wait_workflows')
           /\ pc' = "wait"
                  => /\ StillRunning(wait_workflows')
                     /\ polls < MaxWaitPolls
                     /\ polls' = polls + 1

ProceedStep ==
    pc = "post" /\ raised' = raised
        => /\ RoundAppended
           /\ Last(battle_history').round_number = round_num
           /\ Last(battle_history').failures_after
                  = NamesOf(assessment'.failures)

Thm_C13 ==
    /\ [][PollStep /\ ProceedStep]_vars
    /\ [](polls <= MaxWaitPolls)
    /\ (pc = "wait") ~> (pc # "wait")

Wit_C13 ==
    /\ pc = "post"
    /\ gave_up
    /\ StillRunning(wait_workflows)
    /\ raised = "none"

\* C14: analyze_failure_patterns tests every signature of the table against
\* the whole log, independently of the others: a signature that matches
\* somewhere contributes at least one FailurePattern with its name,
\* confidence, description and fix, a signature that matches nowhere
\* contributes none, and the entries follow the order of the table.
SignatureMatches(d, log) ==
    LET s == Lower(log) IN
    \E i \in 1..Len(log) : MatchEnd(failure_patterns[d].regex, s, i) > 0

TableIndex(name) ==
    CHOOSE d \in DOMAIN failure_patterns : failure_patterns[d].name = name

Analysed == investigations # <<>>

Thm_C14 ==
    Analysed =>
        /\ \A d \in DOMAIN failure_patterns :
               SignatureMatches(d, log_content)
                   <=> \E i \in DOMAIN run_patterns :
                           run_patterns[i].pattern_name
                               = failure_patterns[d].name
        /\ \A i \in DOMAIN run_patterns :
               /\ \E d \in DOMAIN failure_patterns :
                      /\ run_patterns[i].pattern_name = failure_patterns[d].name
                      /\ run_patterns[i].confidence
                             = failure_patterns[d].confidence
                      /\ run_patterns[i].description
                             = failure_patterns[d].description
                      /\ run_patterns[i].suggested_fix = failure_patterns[d].fix
               /\ \A j \in DOMAIN run_patterns :
                      i < j => TableIndex(run_patterns[i].pattern_name)
                                   <= TableIndex(run_patterns[j].pattern_name)

Wit_C14 ==
    /\ Analysed
    /\ SignatureMatches(1, log_content)
    /\ SignatureMatches(3, log_content)
    /\ SignatureMatches(5, log_content)
    /\ ~SignatureMatches(2, log_content)
    /\ Len(run_patterns) >= 3
    /\ run_patterns[1].pattern_name = "npm_package_not_found"
    /\ run_patterns[Len(run_patterns)].pattern_name = "cache_restore_failed"

\* C15: _investigate_run is monotone in the confidence threshold: for two
\* thresholds T1 < T2 on the same log the patterns returned at T1 include
\* the patterns returned at T2, and every returned pattern has a confidence
\* at or above the threshold it was returned for.
Thm_C15 ==
    /\ \A t \in DOMAIN investigations :
           \A i \in DOMAIN investigations[t].patterns :
               investigations[t].patterns[i].confidence >= t
    /\ \A t1 \in DOMAIN investigations, t2 \in DOMAIN investigations :
           t1 < t2 =>
               /\ ToSet(investigations[t2].patterns)
                      \subseteq ToSet(investigations[t1].patterns)
               /\ Len(investigations[t2].patterns)
                      <= Len(investigations[t1].patterns)

Wit_C15 ==
    /\ {60, 85} \subseteq DOMAIN investigations
    /\ investigations[85].patterns # <<>>
    /\ Len(investigations[85].patterns) < Len(investigations[60].patterns)
    /\ \E i \in DOMAIN investigations[60].patterns :
           investigations[60].patterns[i].confidence < 85

\* C16 (as stated): _calculate_overall_confidence returns 0.3 for the empty
\* list and, for every non-empty list, min(sum(c^2) / sum(c), 0.95): a value
\* in (0, 0.95] that is never below the plain average of the confidences
\* nor below the smallest one, and that before the cap is never above the
\* largest one.
Called == overall_confidence # <<>>

Average(patterns) ==
    Rat(SumSeq(Confidences(patterns)), 100 * Len(patterns))

Smallest(patterns) == Rat(MinConfidence(patterns), 100)

Largest(patterns) == Rat(MaxConfidence(patterns), 100)

InUnitRange(r) == RatLess(Rat(0, 1), r) /\ RatLeq(r, Rat(95, 100))

Cex_C16 ==
    Called =>
        LET r == overall_confidence[1] IN
        IF conf_patterns = <<>> THEN r = Rat(30, 100)
        ELSE /\ SumSeq(Confidences(conf_patterns)) > 0
             /\ IF RatLeq(weighted_avg(conf_patterns), Rat(95, 100))
                THEN RatEq(r, weighted_avg(conf_patterns))
                ELSE RatEq(r, Rat(95, 100))
             /\ InUnitRange(r)
             /\ RatLeq(Average(conf_patterns), r)
             /\ RatLeq(Smallest(conf_patterns), r)
             /\ RatLeq(weighted_avg(conf_patterns), Largest(conf_patterns))

\* C16 (amended): the result is 0.3 for the empty list and for a list whose
\* confidences sum to 0; for every other list it is min(sum(c^2) / sum(c),
\* 0.95), a value in (0, 0.95].  Before the cap that quotient is never
\* below the plain average, never below the smallest and never above the
\* largest confidence, so the result is below the average or the smallest
\* confidence only when the cap applies, which takes a confidence above
\* 0.95.
Thm_C16 ==
    Called =>
        LET r == overall_confidence[1] IN
        IF conf_patterns = <<>> \/ SumSeq(Confidences(conf_patterns)) = 0
        THEN r = Rat(30, 100)
        ELSE LET w == weighted_avg(conf_patterns)
                 capped == RatLess(Rat(95, 100), w)
             IN
             /\ IF capped THEN RatEq(r, Rat(95, 100)) ELSE RatEq(r, w)
             /\ InUnitRange(r)
             /\ RatLeq(Average(conf_patterns), w)
             /\ RatLeq(Smallest(conf_patterns), w)
             /\ RatLeq(w, Largest(conf_patterns))
             /\ ~capped => /\ RatLeq(Average(conf_patterns), r)
                           /\ RatLeq(Smallest(conf_patterns), r)
             /\ capped => MaxConfidence(conf_patterns) > 95

Wit_C16 ==
    /\ Called
    /\ Len(conf_patterns) = 2
    /\ conf_patterns[1].confidence = 90
    /\ conf_patterns[2].confidence = 60
    /\ RatLess(Average(conf_patterns), overall_confidence[1])
    /\ RatLess(overall_confidence[1], Largest(conf_patterns))

\* C17: the root-cause text of an investigation.  With no pattern at or
\* above the threshold it is the fixed 'unable to identify' string; with
\* exactly one it is that pattern's description and nothing else; with
\* k > 1 it is the description of the pattern of highest confidence, the
\* earlier one in table order on a tie, followed by
\* ' (plus k-1 related issues)'.
Qualifying(t) ==
    {i \in DOMAIN run_patterns : run_patterns[i].confidence >= t}

Primary(t) ==
    CHOOSE i \in Qualifying(t) :
        \A j \in Qualifying(t) :
            \/ run_patterns[i].confidence > run_patterns[j].confidence
            \/ /\ run_patterns[i].confidence = run_patterns[j].confidence
               /\ i <= j

Thm_C17 ==
    \A t \in DOMAIN investigations :
        LET k == Cardinality(Qualifying(t))
            root_cause == investigations[t].root_cause
        IN
        /\ k = 0 =>
               /\ root_cause.text = "Unable to identify specific root cause from available patterns"
               /\ root_cause.plus = <<>>
        /\ k = 1 =>
               /\ root_cause.text = run_patterns[Primary(t)].description
               /\ root_cause.plus = <<>>
        /\ k > 1 =>
               /\ root_cause.text = run_patterns[Primary(t)].description
               /\ root_cause.plus = <<k - 1>>

Wit_C17 ==
    /\ log_content = JoinLines(<<Line_docker, Line_module>>)
    /\ {85, 95} \subseteq DOMAIN investigations
    /\ investigations[85].root_cause.text = "Missing Python module dependency"
    /\ investigations[85].root_cause.plus = <<1>>
    /\ investigations[95].root_cause = UnableToIdentify

\* C18: the fix_recommendations of an investigation never hold the same
\* suggestion twice, also when one signature matches the log at several
\* positions, and they keep the order in which the suggestions of the
\* returned patterns are first seen.
RECURSIVE FirstSeen(_)
FirstSeen(s) ==
    IF s = <<>> THEN <<>>
    ELSE LET front == FirstSeen(SubSeq(s, 1, Len(s) - 1)) IN
         IF s[Len(s)] \in ToSet(front) THEN front
         ELSE Append(front, s[Len(s)])

Cex_C18 ==
    \A t \in DOMAIN investigations :
        LET recommendations == investigations[t].fix_recommendations
            patterns == investigations[t].patterns
        IN
        /\ \A i \in DOMAIN recommendations, j \in DOMAIN recommendations :
               i # j => recommendations[i] # recommendations[j]
        /\ patterns # <<>> =>
               recommendations =
                   FirstSeen([i \in DOMAIN patterns |->
                                  Bullet(patterns[i].suggested_fix)])

\* C19: every platform query degrades on failure: when the gh call exits
\* with a non-zero status, prints malformed JSON or cannot be executed
\* (permission error), the query returns the empty list or the empty string
\* and no exception reaches its caller, in the jobs manager, the failure
\* analyzer and the fighter alike.
ParsesJson(method) ==
    method \in { "GitHubActionsJobsManager.get_recent_runs",
                 "GitHubActionsFailureAnalyzer.get_recent_workflow_runs",
                 "GitHubActionsFailureAnalyzer.get_run_jobs",
                 "WGUFighter.get_recent_workflow_status" }

QueryFailed(q) ==
    \/ q.outcome.raises # "none"
    \/ q.outcome.returncode # 0
    \/ ParsesJson(q.method) /\ ~q.outcome.is_json

Cex_C19 ==
    \A i \in DOMAIN queries :
        QueryFailed(queries[i])
            => /\ queries[i].result.raised = "none"
               /\ queries[i].result.value = <<>>

\* C20: a workflow file is never overwritten with delegate output that
\* lacks the YAML marker: in every fix or improve routine, when the
\* delegate's response is empty or the content extracted from it contains
\* no 'name:' key, the file keeps its previous content and the item is
\* reported as failed.
Extracted(entry) ==
    IF entry.routine = "improve_existing_workflows"
    THEN extract_yaml_from_response(entry.response)
    ELSE extract_yaml_content(entry.response)

LacksMarker(entry) ==
    \/ entry.response = <<>>
    \/ ~Contains(Extracted(entry), Kw_name_colon)

Cex_C20 ==
    \A i \in DOMAIN fix_log :
        LacksMarker(fix_log[i])
            => /\ fix_log[i].after = fix_log[i].before
               /\ fix_log[i].status = "failed"

Count(s, x) == Cardinality({i \in DOMAIN s : s[i] = x})

\* what the two phases make of a submitted job
Processed(job) == FixTask(fixer, AnalysisTask(fixer, job))

Thm_C24 ==
    /\ phase \in {"called", "analysis"} =>
           /\ results = <<>>
           /\ \A i \in DOMAIN futures : futures[i].arg = jobs[i]
    /\ phase = "fix" =>
           LET analyses == [j \in DOMAIN jobs |-> AnalysisTask(fixer, jobs[j])]
           IN  /\ Len(analyzed_jobs) = Len(jobs)
               /\ \A i \in DOMAIN analyzed_jobs :
                      Count(analyzed_jobs, analyzed_jobs[i])
                          = Count(analyses, analyzed_jobs[i])
               /\ DOMAIN futures = DOMAIN analyzed_jobs
               /\ \A i \in DOMAIN futures :
                      /\ futures[i].arg = analyzed_jobs[i]
                      /\ futures[i].value # <<>> =>
                             futures[i].value[1]
                                 = FixTask(fixer, analyzed_jobs[i])

\* phase 2 at work on two jobs whose analyses finished in the other order
Wit_C24 ==
    /\ phase = "fix"
    /\ Len(jobs) >= 2
    /\ analyzed_jobs[1] # AnalysisTask(fixer, jobs[1])
    /\ \E i \in DOMAIN futures : futures[i].state = "running"
    /\ \E i \in DOMAIN futures : futures[i].state = "done"

\* C22 (as stated): for consecutive rounds k and k+1 of battle_history the
\* failures_after of round k are among the failures_before of round k+1,
\* and the success_rate_after of the round just recorded is the rate of the
\* latest assessment.
Cex_C22 ==
    /\ \A k \in 1..(Len(battle_history) - 1) :
           ToSet(battle_history[k].failures_after)
               \subseteq ToSet(battle_history[k + 1].failures_before)
    /\ (pc = "loop_head" /\ battle_history # <<>>)
           => Last(battle_history).success_rate_after
                  = assessment.success_rate

\* C22 (amended): every round recorded has as failures_after exactly the
\* names of the failing workflows of the last assessment made in that round
\* (the one after the wait, or the only one of a round that finds nothing to
\* fix) and as success_rate_after the rate computed from that assessment.
\* The failures_before of the next round come from a fresh query and need
\* not contain them.
Thm_C22 ==
    [][RoundAppended
          => LET round == Last(battle_history') IN
             /\ round.failures_after = NamesOf(assessment'.failures)
             /\ round.success_rate_after = assessment'.success_rate]_vars

\* a fought round left two failures behind, and the next, fought as well,
\* found only one of them at its start
Wit_C22 ==
    /\ Len(battle_history) >= 2
    /\ battle_history[1].fixes_applied # <<>>
    /\ battle_history[2].fixes_applied # <<>>
    /\ ~(ToSet(battle_history[1].failures_after)
             \subseteq ToSet(battle_history[2].failures_before))
    /\ battle_history[2].failures_before # <<>>

\* the workflow names of RunLists, as the characters a keyword test reads
NameChars(name) ==
    CASE name = "ci" -> <<"c","i">>
      [] name = "tests" -> <<"t","e","s","t","s">>

\* apply_python_fixes always reports this fix, and no other function does
PythonFixesRan(round) ==
    "Updated PYTHONPATH configuration in workflows"
        \in ToSet(round.fixes_applied)

\* C23: in a round with failures the Python fix function runs exactly when
\* the name of some failing workflow contains "python".
Cex_C23 ==
    \A k \in DOMAIN battle_history :
        battle_history[k].failures_before # <<>>
            => (PythonFixesRan(battle_history[k])
                   <=> \E name \in ToSet(battle_history[k].failures_before) :
                           Contains(Lower(NameChars(name)), Kw_python))

Fetches ==
    {i \in DOMAIN queries :
        queries[i].method
            = "EnhancedConcurrentJobFixer.get_authenticated_failed_jobs"}

\* C25: get_authenticated_failed_jobs falls back to the demo jobs whenever
\* the fetch, allowed by the quota, yields nothing it can use: when gh run
\* list exits 0 with the empty list, as when the call raises, exits
\* non-zero or prints malformed JSON, the list returned is not empty.
Cex_C25 ==
    \A i \in Fetches :
        LET o == queries[i].outcome IN
        (o.quota /\ (o.list.raises # "none" \/ o.list.returncode # 0
                     \/ ~o.list.is_json \/ o.list.stdout = <<>>))
            => queries[i].result.value # <<>>

\* C26: every round of battle_history has success_rate_after 100 exactly
\* when its failures_after is empty, on the short-circuit path and on the
\* fix, wait and reassess path, whatever the number of workflows; so a
\* round is followed by VICTORY exactly when it ended with no failing
\* workflow, and such a round is the last one.
Thm_C26 ==
    /\ \A k \in DOMAIN battle_history :
           LET round == battle_history[k] IN
           /\ round.success_rate_after = 10000 <=> round.failures_after = <<>>
           /\ round.success_rate_after <= 10000
           /\ round.failures_after = <<>>
                  => k = Len(battle_history) /\ result = VICTORY
    /\ (result = VICTORY /\ battle_history # <<>>)
           => Last(battle_history).failures_after = <<>>

\* a fought round that left failures, then a fought round that left none
Wit_C26 ==
    /\ result = VICTORY
    /\ Len(battle_history) >= 2
    /\ battle_history[1].failures_after # <<>>
    /\ Last(battle_history).failures_before # <<>>
    /\ Last(battle_history).failures_after = <<>>
    /\ Last(battle_history).success_rate_after = 10000

\* the fixes of the round that is being executed, or was when an exception
\* or an interrupt ended the fight: applied, and not yet in a BattleRound
FixesOfRunningRound ==
    IF pc \in {"wait", "post"} \/ raised_at \in {"wait", "post"}
    THEN round_fixes ELSE <<>>

IsPrefix(s, t) == Len(s) <= Len(t) /\ SubSeq(t, 1, Len(s)) = s

\* C27: at every point total_fixes_applied is, in order, the concatenation
\* over the rounds executed of the round's fixes_applied, each followed by
\* the three alternative fixes when a loop was detected after that round
\* (after the last round of the budget as well), the fixes of the round in
\* execution coming last; no BattleRound.fixes_applied holds an alternative
\* fix; and no step removes anything from total_fixes_applied or from
\* battle_history.
Thm_C27 ==
    /\ [](/\ total_fixes_applied = FixesInOrder \o FixesOfRunningRound
          /\ \A k \in DOMAIN battle_history :
                 ToSet(battle_history[k].fixes_applied)
                     \cap ToSet(alternative_fixes) = {})
    /\ [][/\ IsPrefix(total_fixes_applied, total_fixes_applied')
          /\ IsPrefix(battle_history, battle_history')]_vars

\* retreat after a loop was detected behind the last round of the budget
Wit_C27 ==
    /\ result = STRATEGIC_RETREAT
    /\ Len(battle_history) = max_rounds
    /\ \E k \in DOMAIN loop_log : loop_log[k] = <<max_rounds, TRUE>>
    /\ Last(battle_history).fixes_applied # <<>>
    /\ SubSeq(total_fixes_applied, Len(total_fixes_applied) - 2,
              Len(total_fixes_applied)) = alternative_fixes

\* a step that makes an assessment: the initial one, the one that opens a
\* round or the one after a round's wait
Assesses ==
    /\ pc \in {"initial", "loop_head", "post"}
    /\ raised' = "none"
    /\ assessment' # assessment

\* C28: an assessment made from an empty list of workflows, which is also
\* what a failed or unparseable gh call yields, has no failures and a success
\* rate of 100%.  Made as the initial assessment it ends the fight with
\* VICTORY and no round; made in a round, before the fixes or after the
\* wait, it makes that round the last one, recorded with no failures_after
\* and 100%, and the fight ends with VICTORY.
Thm_C28 ==
    [][(Assesses /\ assessment'.workflows = <<>>)
          => /\ assessment'.failures = <<>>
             /\ assessment'.success_rate = 10000
             /\ result' = VICTORY
             /\ pc' = "returned"
             /\ pc = "initial" => battle_history' = <<>>
             /\ pc # "initial"
                    => /\ RoundAppended
                       /\ Last(battle_history').failures_after = <<>>
                       /\ Last(battle_history').success_rate_after = 10000]_vars

\* a round applied fixes, waited, and was then told of no workflow at all
Wit_C28 ==
    /\ result = VICTORY
    /\ battle_history # <<>>
    /\ assessment.workflows = <<>>
    /\ Last(battle_history).failures_before # <<>>
    /\ Last(battle_history).success_rate_after = 10000

\* what the fix function of a branch returns in directory d
FixesOfBranch(branch, d) ==
    CASE branch = "apply_python_fixes" -> apply_python_fixes(d)
      [] branch = "apply_nodejs_fixes" -> apply_nodejs_fixes(d)
      [] branch = "apply_test_fixes" -> apply_test_fixes(d)
      [] branch = "apply_dependency_fixes" -> apply_dependency_fixes
      [] branch = "apply_workflow_fixes" -> apply_workflow_fixes
      [] branch = "none" -> <<>>

\* C29: in every round that applies fixes, each pattern that
\* analyze_failure_patterns produced is handled by exactly one branch of the
\* dispatch of apply_fighter_fixes, the first that matches: its fixes are
\* those of that one fix function, and no pattern falls through the chain.
Cex_C29 ==
    \A k \in DOMAIN battle_history :
        battle_history[k].failures_before # <<>>
            => LET produced ==
                       analyze_failure_patterns(battle_history[k].failures_before)
               IN  \A i \in DOMAIN produced :
                       /\ FixesForPattern(produced[i], fs)
                              = FixesOfBranch(DispatchedTo(produced[i]), fs)
                       /\ DispatchedTo(produced[i]) # "none"

\* the signatures of the table whose regular expression is found in the
\* analysed logs
SignaturesHit ==
    {k \in DOMAIN analyzer_failure_patterns :
        findall_nonempty(analyzer_failure_patterns[k].pattern, analyzer_logs)}

\* C30: analyze_failure_patterns reports exactly one signature, the first in
\* table order whose regular expression matches the logs: error type,
\* message, fixes, change hints and confidence all come from it, and no
\* later matching signature is reported; the result has error type
\* 'unknown', confidence 0.0 and empty fix lists exactly when no signature
\* matches.
Thm_C30 ==
    failure_analysis # <<>> =>
        LET a == failure_analysis[1]
            unknown == /\ a.error_type = "unknown"
                       /\ a.confidence = 0
                       /\ a.suggested_fixes = <<>>
                       /\ a.workflow_changes = <<>>
                       /\ a.code_changes = <<>>
        IN  /\ unknown <=> SignaturesHit = {}
            /\ \A k \in SignaturesHit :
                   LET sig == analyzer_failure_patterns[k] IN
                   IF \A l \in SignaturesHit : k <= l
                   THEN /\ a.error_type = sig.error_type
                        /\ a.error_message = sig.message
                        /\ a.suggested_fixes = sig.fixes
                        /\ a.confidence = sig.confidence
                        /\ a.workflow_changes =
                               Get(sig, "workflow_changes", <<>>)
                        /\ a.code_changes = Get(sig, "code_changes", <<>>)
                   ELSE /\ a.error_type # sig.error_type
                        /\ a.error_message # sig.message
                        /\ a.suggested_fixes # sig.fixes

\* logs that two signatures match have been analysed, and the earlier one in
\* the table is the one reported
Wit_C30 ==
    /\ failure_analysis # <<>>
    /\ Cardinality(SignaturesHit) >= 2
    /\ \E k \in SignaturesHit :
           /\ \A l \in SignaturesHit : k <= l
           /\ failure_analysis[1].error_type =
                  analyzer_failure_patterns[k].error_type

====
